---- MODULE Spec2Model ----
(***************************************************************************)
(* MiniKart: checkpoint / lap tracking (CheckpointSystem, Checkpoint),     *)
(* the game loop with wall collision handling (Game), and the kart motion   *)
(* step (Kart, ArcadeController).                                           *)
(*                                                                          *)
(* Numbers.  JavaScript numbers are modelled in fixed point: positions,     *)
(* speeds and headings are integers in thousandths (FP) of a world unit,    *)
(* of a unit per second and of a radian.  Clock readings are integer       *)
(* milliseconds; lap times are kept in milliseconds (the source divides by  *)
(* 1000, which keeps order and zero).                                       *)
(***************************************************************************)
EXTENDS Integers, Sequences, FiniteSets, TLC

VARIABLES
  checkpoints,   \* CheckpointSystem.checkpoints: sequence of Checkpoint
  kartsInside,   \* Checkpoint.kartsInside, by list index: set of kart ids
  kartStates,    \* CheckpointSystem.kartStates: Map kart id -> progress
  now,           \* the last reading of performance.now()
  events,        \* eventBus.emit calls made by the last operation, in order
  lastCall,      \* the last operation and its arguments
  lapLog,        \* history: per kart, the lap times of its completed laps
  runCount,      \* history: per kart and checkpoint, the checkpoint-reached
                 \* and lap-completed events since the kart's position was
                 \* last outside that checkpoint's volume
  game,          \* Game: isRunning, winner, _frameCount, winCondition, penalties
  karts,         \* Game.karts: sequence of Kart (with its ArcadeController)
  track,         \* Game.track: tileSize, width, height, trackData
  frameLog,      \* history: per kart of the last Game.update, what the loop
                 \* body saw and did (positions, speeds, hit, lap result)
  race,          \* history since the last Game.start(): winner changes,
                 \* race-won events, karts with a qualifying lap result
  arcade,        \* an ArcadeController driven on its own: the controller,
                 \* the position and heading it moves, and the last call
  probe,         \* a query on a Track or a DirectionField and its answer
  cpu,           \* CpuDriver: path, cursor, stuck / reverse timers
  bus,           \* EventBus: listeners, and the run of the last emit
  editor         \* MapEditor: grid, undo and redo stacks

csVars == <<checkpoints, kartsInside, kartStates, now, events, lastCall,
            lapLog, runCount>>

gameVars == <<game, karts, track, frameLog, race>>

auxVars == <<arcade, probe, cpu, bus, editor>>

vars == <<csVars, gameVars, auxVars>>

----------------------------------------------------------------------------
(* Bounds of the model *)

MaxClock == 1      \* performance.now() readings range over 0..MaxClock
MaxLaps  == 2      \* update calls are explored while currentLap < MaxLaps
MaxFrames == 3     \* Game.update frames are explored while _frameCount < MaxFrames

(* Scale of the fixed-point numbers *)
FP == 10 * 10 * 10

(* JavaScript null (for lastLapTime / bestLapTime) *)
Null == 0 - 1

Abs(n) == IF n < 0 THEN -n ELSE n

----------------------------------------------------------------------------
(* Inputs *)

KartIds == {"player", "cpu-1"}

(* Kart positions offered to CheckpointSystem.update: a coarse lattice of  *)
(* world points at kart height (y = 0.5), and one point on the ground      *)
(* plane (y = 0).                                                           *)
Pos(x, y, z) == [x |-> x, y |-> y, z |-> z]
Positions ==
  { Pos(2 * i * FP, FP \div 2, 2 * j * FP) : i \in 0..2, j \in 0..1 }
  \cup { Pos(0, 0, 0) }

(* Checkpoint definitions (track data).  rotation is given in quarter      *)
(* turns (rotation = q * PI/2), for which Math.cos / Math.sin are exact.   *)
Cp(id, x, z, q, w, fin) ==
  [id |-> id, px |-> x * FP, py |-> 0, pz |-> z * FP, rotation |-> q,
   width |-> w, height |-> 10, isFinishLine |-> fin]

CheckpointData ==
  { \* three checkpoints; 0/1 overlap at (0,0), 1/2 overlap at (4,0)
    << Cp(0, 0, 0, 0, 2, FALSE), Cp(1, 2, 0, 0, 6, FALSE), Cp(2, 4, 0, 1, 6, TRUE) >>,
    \* two checkpoints given out of id order
    << Cp(1, 4, 2, 0, 2, TRUE), Cp(0, 0, 0, 0, 2, FALSE) >>,
    \* a single checkpoint
    << Cp(0, 2, 0, 0, 2, TRUE) >> }

----------------------------------------------------------------------------
(* Checkpoint *)

\* Math.cos / Math.sin of q quarter turns (q may be negative)
CosQ(q) == CASE q % 4 = 0 -> 1 [] q % 4 = 1 -> 0 [] q % 4 = 2 -> -1 [] OTHER -> 0
SinQ(q) == CASE q % 4 = 0 -> 0 [] q % 4 = 1 -> 1 [] q % 4 = 2 -> 0 [] OTHER -> -1

DepthTolerance == 2

\* the isInside test of Checkpoint.checkCollision
IsInside(cp, kartPos) ==
  LET localX   == kartPos.x - cp.px
      localZ   == kartPos.z - cp.pz
      cosTheta == CosQ(-cp.rotation)
      sinTheta == SinQ(-cp.rotation)
      rotatedX == localX * cosTheta - localZ * sinTheta
      rotatedZ == localX * sinTheta + localZ * cosTheta
  IN  /\ 2 * Abs(rotatedX) < cp.width * FP
      /\ kartPos.y < cp.height * FP
      /\ kartPos.y > 0
      /\ Abs(rotatedZ) < DepthTolerance * FP

\* checkCollision with the position test left out of the entry branch
checkCollision_NoInsideTest(inside, i, kartId, kartPos) ==
  IF kartId \notin inside[i]
    THEN [entered |-> TRUE, inside |-> [inside EXCEPT ![i] = @ \cup {kartId}]]
  ELSE [entered |-> FALSE, inside |-> inside]

\* checkCollision made level-triggered: it reports every call inside the volume
checkCollision_Level(inside, i, kartId, kartPos) ==
  LET isInside == IsInside(checkpoints[i], kartPos)
  IN  [entered |-> isInside,
       inside  |-> [inside EXCEPT ![i] = IF isInside THEN @ \cup {kartId}
                                         ELSE @ \ {kartId}]]

\* checkCollision that replaces the set on entry instead of adding to it
checkCollision_Overwrite(inside, i, kartId, kartPos) ==
  LET isInside == IsInside(checkpoints[i], kartPos)
  IN  IF isInside /\ kartId \notin inside[i]
        THEN [entered |-> TRUE,  inside |-> [inside EXCEPT ![i] = {kartId}]]
      ELSE IF ~isInside /\ kartId \in inside[i]
        THEN [entered |-> FALSE, inside |-> [inside EXCEPT ![i] = @ \ {kartId}]]
      ELSE   [entered |-> FALSE, inside |-> inside]

\* Checkpoint.checkCollision on the checkpoint at list index i:
\* the returned flag and the checkpoint's new kartsInside set
checkCollision(inside, i, kartId, kartPos) ==
  LET isInside == IsInside(checkpoints[i], kartPos)
  IN  IF isInside /\ kartId \notin inside[i]
        THEN [entered |-> TRUE,  inside |-> [inside EXCEPT ![i] = @ \cup {kartId}]]
      ELSE IF ~isInside /\ kartId \in inside[i]
        THEN [entered |-> FALSE, inside |-> [inside EXCEPT ![i] = @ \ {kartId}]]
      ELSE   [entered |-> FALSE, inside |-> inside]

----------------------------------------------------------------------------
(* CheckpointSystem *)

RECURSIVE SortById(_)
\* [...checkpointData].sort((a, b) => a.id - b.id), by insertion
SortById(s) ==
  IF Len(s) <= 1 THEN s
  ELSE LET rest == SortById(Tail(s))
           h    == Head(s)
           k    == Cardinality({ i \in 1..Len(rest) : rest[i].id < h.id })
       IN  SubSeq(rest, 1, k) \o <<h>> \o SubSeq(rest, k + 1, Len(rest))

\* CheckpointSystem.loadCheckpoints
loadCheckpoints(checkpointData) == SortById(checkpointData)

\* the progress record CheckpointSystem.initKart stores, read at time t
initKart(t) ==
  [currentLap |-> 0, nextCheckpointIndex |-> 0, checkpointsPassed |-> <<>>,
   lapStartTime |-> t, lastLapTime |-> Null, bestLapTime |-> Null]

\* Map.set
MapSet(m, k, v) == [x \in DOMAIN m \cup {k} |-> IF x = k THEN v ELSE m[x]]

\* JavaScript !v for a number-or-null
Falsy(v) == v = Null \/ v = 0

\* completeLap that forgets to reset nextCheckpointIndex
completeLap_NoReset(state, kartId, t1, t2) ==
  LET lapTime == t1 - state.lapStartTime
      best    == IF Falsy(state.bestLapTime) \/ lapTime < state.bestLapTime
                   THEN lapTime ELSE state.bestLapTime
      lap     == state.currentLap + 1
  IN  [state  |-> [state EXCEPT !.bestLapTime = best,
                                !.lastLapTime = lapTime,
                                !.currentLap = lap,
                                !.checkpointsPassed = <<>>,
                                !.lapStartTime = t2],
       events |-> << [type |-> "lap-completed", kartId |-> kartId,
                      lapNumber |-> lap, lapTime |-> lapTime,
                      bestLapTime |-> best] >>,
       result |-> [type |-> "lap", lapNumber |-> lap, lapTime |-> lapTime,
                   bestLapTime |-> best]]

\* CheckpointSystem.completeLap: t1 and t2 are its two clock readings
completeLap(state, kartId, t1, t2) ==
  LET lapTime == t1 - state.lapStartTime
      best    == IF Falsy(state.bestLapTime) \/ lapTime < state.bestLapTime
                   THEN lapTime ELSE state.bestLapTime
      lap     == state.currentLap + 1
  IN  [state  |-> [state EXCEPT !.bestLapTime = best,
                                !.lastLapTime = lapTime,
                                !.currentLap = lap,
                                !.nextCheckpointIndex = 0,
                                !.checkpointsPassed = <<>>,
                                !.lapStartTime = t2],
       events |-> << [type |-> "lap-completed", kartId |-> kartId,
                      lapNumber |-> lap, lapTime |-> lapTime,
                      bestLapTime |-> best] >>,
       result |-> [type |-> "lap", lapNumber |-> lap, lapTime |-> lapTime,
                   bestLapTime |-> best]]

NoResult == [type |-> "null"]

\* CheckpointSystem.update(kartId, kartPosition).  t0 is the clock reading
\* of initKart (when the kart is new), t1 and t2 those of completeLap.
\* states and inside are kartStates and the kartsInside sets at the call.
\* Gives the new kartStates and kartsInside, the events emitted and the
\* value returned.
update(states, inside, kartId, kartPosition, t0, t1, t2) ==
  LET states0 == IF kartId \in DOMAIN states THEN states
                 ELSE MapSet(states, kartId, initKart(t0))
      state   == states0[kartId]
      idx     == state.nextCheckpointIndex + 1      \* 1-based list index
  IN  IF Len(checkpoints) = 0 \/ idx > Len(checkpoints)
        THEN [kartStates |-> states0, kartsInside |-> inside,
              events |-> <<>>, result |-> NoResult]
      ELSE
        LET cc == checkCollision(inside, idx, kartId, kartPosition)
            nextCheckpoint == checkpoints[idx]
        IN  IF ~cc.entered
              THEN [kartStates |-> states0, kartsInside |-> cc.inside,
                    events |-> <<>>, result |-> NoResult]
            ELSE
              LET st1 == [state EXCEPT
                            !.checkpointsPassed = Append(@, nextCheckpoint.id),
                            !.nextCheckpointIndex = @ + 1]
                  reached == [type |-> "checkpoint-reached", kartId |-> kartId,
                              checkpointId |-> nextCheckpoint.id,
                              checkpointIndex |-> st1.nextCheckpointIndex - 1,
                              remaining |-> Len(checkpoints) - st1.nextCheckpointIndex,
                              isFinishLine |-> nextCheckpoint.isFinishLine]
              IN  IF st1.nextCheckpointIndex >= Len(checkpoints)
                    THEN LET cl == completeLap(st1, kartId, t1, t2)
                         IN  [kartStates |-> MapSet(states0, kartId, cl.state),
                              kartsInside |-> cc.inside,
                              events |-> <<reached>> \o cl.events,
                              result |-> cl.result]
                  ELSE [kartStates |-> MapSet(states0, kartId, st1),
                        kartsInside |-> cc.inside,
                        events |-> <<reached>>, result |-> NoResult]

----------------------------------------------------------------------------
(* The checkpoint system driven by arbitrary update calls *)

\* JavaScript null where a kart id is expected (Game.winner)
NullId == "null"

\* new Game(scene, options) before any kart or track is attached
Game(winCondition) ==
  [isRunning |-> FALSE, winner |-> NullId, frameCount |-> 0,
   winCondition |-> winCondition,
   wallSlideSpeedPenalty |-> 7 * (FP \div 10),
   wallStopSpeedPenalty |-> 5 * (FP \div 10)]

NoRace == [winnerChanges |-> 0, raceWon |-> 0, qualified |-> {}]

\* a part of the program that a specification does not construct
Unused == [unused |-> TRUE]

NoAux ==
  /\ arcade = Unused
  /\ probe = Unused
  /\ cpu = Unused
  /\ bus = Unused
  /\ editor = Unused

\* no game is attached to the checkpoint system
NoGame ==
  /\ game = Game([lapsToWin |-> 3, enabled |-> TRUE])
  /\ karts = <<>>
  /\ track = [tileSize |-> 10 * FP, width |-> 0, height |-> 0, trackData |-> <<>>]
  /\ frameLog = <<>>
  /\ race = NoRace

InitCS ==
  /\ \E data \in CheckpointData :
       /\ checkpoints = loadCheckpoints(data)
       /\ kartsInside = [i \in 1..Len(data) |-> {}]
       /\ runCount = [k \in KartIds |-> [i \in 1..Len(data) |->
                                          [reached |-> 0, laps |-> 0]]]
  /\ kartStates = <<>>
  /\ now = 0
  /\ events = <<>>
  /\ lastCall = [op |-> "init"]
  /\ lapLog = [k \in KartIds |-> <<>>]
  /\ NoGame
  /\ NoAux

\* the events of type t about checkpoint index i (0-based) in a list
ReachedIn(evs, i) ==
  Cardinality({ n \in 1..Len(evs) : /\ evs[n].type = "checkpoint-reached"
                                     /\ evs[n].checkpointIndex = i })
LapsIn(evs) ==
  Cardinality({ n \in 1..Len(evs) : evs[n].type = "lap-completed" })

\* the history variables after an update call of kartId at pos emitting evs
LogAfter(kartId, r) ==
  IF r.result.type = "lap"
    THEN [lapLog EXCEPT ![kartId] = Append(@, r.result.lapTime)]
  ELSE lapLog
RunAfter(kartId, pos, evs) ==
  [runCount EXCEPT ![kartId] = [i \in DOMAIN @ |->
     IF ~IsInside(checkpoints[i], pos) THEN [reached |-> 0, laps |-> 0]
     ELSE [reached |-> @[i].reached + ReachedIn(evs, i - 1),
           laps    |-> @[i].laps + LapsIn(evs)]]]

\* One CheckpointSystem.update(kartId, pos) call, d milliseconds after the
\* previous clock reading; completeLap's second reading is e later.
Update(kartId, pos, d, e) ==
  /\ now + d + e <= MaxClock
  /\ kartId \in DOMAIN kartStates => kartStates[kartId].currentLap < MaxLaps
  /\ \E r \in { update(kartStates, kartsInside, kartId, pos,
                      now + d, now + d, now + d + e) } :
       /\ e > 0 => r.result.type = "lap"
       /\ kartStates' = r.kartStates
       /\ kartsInside' = r.kartsInside
       /\ events' = r.events
       /\ now' = now + d + e
       /\ lastCall' = [op |-> "update", kartId |-> kartId, pos |-> pos,
                       result |-> r.result]
       /\ lapLog' = LogAfter(kartId, r)
       /\ runCount' = RunAfter(kartId, pos, r.events)
  /\ UNCHANGED <<checkpoints, gameVars, auxVars>>

\* SpecCS: update calls for two karts, all made within one millisecond of the
\* clock (the properties checked under it do not read the clock).
NextCS == \E k \in KartIds, p \in Positions : Update(k, p, 0, 0)

SpecCS == InitCS /\ [][NextCS]_vars

\* SpecLap: update calls for one kart while the clock advances.
NextLap == \E p \in Positions, d \in 0..1, e \in 0..1 : Update("player", p, d, e)

SpecLap == InitCS /\ [][NextLap]_vars

----------------------------------------------------------------------------
(* Properties of the checkpoint system (checked under SpecCS) *)

N == Len(checkpoints)

\* the progress of a kart; a kart the system has not seen yet has the
\* progress initKart will give it
ProgressOf(states, k) ==
  IF k \in DOMAIN states THEN states[k] ELSE initKart(0)

\* this step is an update call (every update call records itself in lastCall)
UpdateStep == lastCall'.op = "update"
CallKart == lastCall'.kartId
CallPos  == lastCall'.pos

\* the call of this step is a shortcut attempt: pos lies in the volume of a
\* checkpoint after the next one and outside the volume of the next one
ShortcutAttempt(st, pos) ==
  /\ st.nextCheckpointIndex + 1 <= N
  /\ ~IsInside(checkpoints[st.nextCheckpointIndex + 1], pos)
  /\ \E j \in (st.nextCheckpointIndex + 2)..N : IsInside(checkpoints[j], pos)

\* checkpointsPassed lists the ids of the checkpoints before the next one,
\* in list order
PassedInOrder(states) ==
  \A k \in DOMAIN states :
    /\ states[k].nextCheckpointIndex \in 0..(N - 1)
    /\ states[k].checkpointsPassed =
         [i \in 1..states[k].nextCheckpointIndex |-> checkpoints[i].id]

\* C1 (shortcut rejection): with three or more checkpoints, an update call
\* whose position is inside the volume of a checkpoint after the next one
\* and outside the volume of the next one leaves nextCheckpointIndex,
\* checkpointsPassed and currentLap of the kart unchanged and emits nothing;
\* and in every state the checkpoints passed this lap are exactly those
\* before nextCheckpointIndex, in order.
C1_ShortcutRejected ==
  [][ UpdateStep /\ N >= 3 =>
        /\ ShortcutAttempt(ProgressOf(kartStates, CallKart), CallPos) =>
             LET before == ProgressOf(kartStates, CallKart)
                 after  == kartStates'[CallKart]
             IN  /\ after.nextCheckpointIndex = before.nextCheckpointIndex
                 /\ after.checkpointsPassed = before.checkpointsPassed
                 /\ after.currentLap = before.currentLap
                 /\ events' = <<>>
        /\ PassedInOrder(kartStates') ]_csVars

\* a shortcut attempt has just been made and rejected: the kart of the last
\* call stands inside a later checkpoint, outside its next one, and the call
\* emitted nothing
C1_Witness ==
  /\ lastCall.op = "update"
  /\ N >= 3
  /\ events = <<>>
  /\ kartStates[lastCall.kartId].nextCheckpointIndex = 1
  /\ ShortcutAttempt(kartStates[lastCall.kartId], lastCall.pos)

\* C2 (edge-triggered crossing): while a kart's position stays inside a
\* checkpoint's volume over consecutive update calls of that kart, at most
\* one checkpoint-reached event is emitted for that checkpoint; with a single
\* checkpoint at most one lap completes in such a run.
C2_EdgeTriggered ==
  \A k \in KartIds : \A i \in 1..N :
    /\ runCount[k][i].reached <= 1
    /\ N = 1 => runCount[k][i].laps <= 1

\* a kart lingers: it crossed the single checkpoint and a later update call
\* found it still inside without emitting anything
C2_Witness ==
  /\ N = 1
  /\ lastCall.op = "update"
  /\ IsInside(checkpoints[1], lastCall.pos)
  /\ runCount[lastCall.kartId][1].reached = 1
  /\ runCount[lastCall.kartId][1].laps = 1
  /\ events = <<>>

\* C3 (inside-set removal on exit): after every update(kartId, pos) call, for
\* every checkpoint c, kartId in c.kartsInside implies pos is inside c.
C3_InsideImpliesPos ==
  lastCall.op = "update" =>
    \A i \in 1..N :
      lastCall.kartId \in kartsInside[i] => IsInside(checkpoints[i], lastCall.pos)

\* the call of this step crosses the last checkpoint: the kart's next
\* checkpoint is the last one, the position is inside its volume and the
\* kart was not inside before
CrossesLast(st, k, pos) ==
  /\ st.nextCheckpointIndex = N - 1
  /\ IsInside(checkpoints[N], pos)
  /\ k \notin kartsInside[N]

RECURSIVE MinOf(_)
MinOf(s) ==
  IF Len(s) = 1 THEN s[1]
  ELSE LET m == MinOf(Tail(s)) IN IF s[1] < m THEN s[1] ELSE m

\* C5 (best lap is the minimum): once a kart has completed laps, bestLapTime
\* is the minimum of its recorded lap times and lastLapTime the latest one.
C5_BestIsMin ==
  \A k \in DOMAIN kartStates :
    lapLog[k] # <<>> =>
      /\ kartStates[k].bestLapTime = MinOf(lapLog[k])
      /\ kartStates[k].lastLapTime = lapLog[k][Len(lapLog[k])]

\* C6 (per-kart isolation): an update call for kart a leaves every other
\* kart's progress record (or its absence) and its membership in every
\* checkpoint's kartsInside set unchanged.
C6_Isolation ==
  [][ UpdateStep =>
        \A b \in KartIds \ {CallKart} :
          /\ (b \in DOMAIN kartStates') = (b \in DOMAIN kartStates)
          /\ b \in DOMAIN kartStates => kartStates'[b] = kartStates[b]
          /\ \A i \in 1..N : (b \in kartsInside'[i]) = (b \in kartsInside[i]) ]_csVars

\* the player has just crossed a checkpoint while cpu-1, already under way,
\* stands inside a checkpoint
C6_Witness ==
  /\ lastCall.op = "update"
  /\ lastCall.kartId = "player"
  /\ events # <<>>
  /\ "cpu-1" \in DOMAIN kartStates
  /\ kartStates["cpu-1"].nextCheckpointIndex >= 1
  /\ \E i \in 1..N : {"player", "cpu-1"} \subseteq kartsInside[i]

----------------------------------------------------------------------------
(* Fixed-point arithmetic for the motion model *)

\* F(e), with e evaluated once
Eval(e, F(_)) == CHOOSE r \in { F(x) : x \in {e} } : TRUE

\* a * b of two fixed-point numbers, rounded to the nearest thousandth
\* (split so that the intermediate products stay small)
MulFP(a, b) == (a \div FP) * b + ((a % FP) * b + FP \div 2) \div FP

\* a / b of two fixed-point numbers
DivFP(a, b) == (a * FP) \div b

Min(a, b) == IF a < b THEN a ELSE b
Max(a, b) == IF a > b THEN a ELSE b

\* THREE.MathUtils.clamp
Clamp(value, lo, hi) == Max(lo, Min(hi, value))

\* THREE.MathUtils.lerp: (1 - t) * x + t * y
Lerp(x, y, t) == MulFP(FP - t, x) + MulFP(t, y)

\* Math.sign
Sign(n) == IF n > 0 THEN 1 ELSE IF n < 0 THEN 0 - 1 ELSE 0

\* Math.sin of an angle in thousandths of a radian: the angle is brought
\* into [-PI/2, PI/2] and the series x - x^3/3! + x^5/5! - x^7/7! is summed
\* (the sum is kept within [-1, 1], the range of Math.sin)
SinFP(a) ==
  LET pi   == 3142
      half == 1571
      w    == ((a + pi) % (2 * pi)) - pi
      x    == IF w > half THEN pi - w ELSE IF w < -half THEN -pi - w ELSE w
      x2   == MulFP(x, x)
      t3   == FP - x2 \div 42
      t2   == FP - MulFP(x2 \div 20, t3)
      t1   == FP - MulFP(x2 \div 6, t2)
  IN  Clamp(MulFP(x, t1), -FP, FP)

\* Math.cos
CosFP(a) == SinFP(a + 1571)

----------------------------------------------------------------------------
(* TileRegistry and Track *)

\* the registry entries the tracks below use: collision and speedMultiplier
\* (a tile without a speedMultiplier counts as 1.0)
TileRegistry ==
  [straight     |-> [id |-> "straight",     collision |-> TRUE,  speedMultiplier |-> FP],
   start_finish |-> [id |-> "start_finish", collision |-> TRUE,  speedMultiplier |-> FP],
   grass        |-> [id |-> "grass",        collision |-> TRUE,  speedMultiplier |-> 6 * (FP \div 10)],
   wall         |-> [id |-> "wall",         collision |-> FALSE, speedMultiplier |-> FP],
   barrier      |-> [id |-> "barrier",      collision |-> FALSE, speedMultiplier |-> FP],
   empty        |-> [id |-> "empty",        collision |-> FALSE, speedMultiplier |-> FP]]

\* getTile(id): the entry with that id, EMPTY when there is none
getTile(id) ==
  IF \E key \in DOMAIN TileRegistry : TileRegistry[key].id = id
    THEN TileRegistry[CHOOSE key \in DOMAIN TileRegistry : TileRegistry[key].id = id]
  ELSE TileRegistry.empty

NoTile == [id |-> "null", collision |-> FALSE, speedMultiplier |-> FP]

\* Track.worldToGrid before its bounds check: 0-based row and column
worldToGrid(t, position) ==
  [col |-> (position.x + (t.width * t.tileSize) \div 2) \div t.tileSize,
   row |-> (position.z + (t.height * t.tileSize) \div 2) \div t.tileSize]

InGrid(t, g) ==
  ~(g.row < 0 \/ g.row >= t.height \/ g.col < 0 \/ g.col >= t.width)

\* this.trackData[row][col]: undefined for a column the row does not have
TileIdAt(t, row, col) ==
  IF col + 1 \in DOMAIN t.trackData[row + 1]
    THEN t.trackData[row + 1][col + 1]
  ELSE "undefined"

\* Track.getTileAtPosition (NoTile stands for null)
getTileAtPosition(t, position) ==
  LET g == worldToGrid(t, position)
  IN  IF ~InGrid(t, g) THEN NoTile
      ELSE getTile(TileIdAt(t, g.row, g.col))

\* isOutOfBounds that only looks at the grid extent
isOutOfBounds_ExtentOnly(t, position) ==
  getTileAtPosition(t, position) = NoTile

\* Track.isOutOfBounds: !tile || !tile.collision
isOutOfBounds(t, position) ==
  LET tile == getTileAtPosition(t, position)
  IN  tile = NoTile \/ ~tile.collision

\* Track.getSpeedMultiplier: tile?.speedMultiplier ?? 1.0
getSpeedMultiplier(t, position) ==
  LET tile == getTileAtPosition(t, position)
  IN  IF tile = NoTile THEN FP ELSE tile.speedMultiplier

----------------------------------------------------------------------------
(* ArcadeController *)

\* the constructor's default parameters
Params ==
  [acceleration |-> 30 * FP, brakeForce |-> 80 * FP, maxSpeed |-> 40 * FP,
   reverseSpeed |-> 20 * FP, friction |-> 25 * FP,
   turnSpeed |-> 1250, minTurnSpeed |-> 400,
   driftTurnPenalty |-> 700, driftOutwardPush |-> 500,
   driftSpeedBonus |-> 1020, driftChargeRate |-> FP,
   boostSpeed |-> 50 * FP, boostDuration |-> 2 * FP]

\* new ArcadeController({}): the mutable fields (driftAngle, first read
\* through "this.driftAngle || 0", starts as 0)
ArcadeController ==
  [speed |-> 0, isDrifting |-> FALSE, driftDirection |-> 0,
   driftCharge |-> 0, driftAngle |-> 0, smoothedOutwardPush |-> 0,
   boostTimer |-> 0]

\* ArcadeController.giveBoost(): the new boost timer
giveBoost == Params.boostDuration

\* the end of a drift that gives a boost whatever the charge
BoostOnRelease_Always(ends, driftCharge, boostTimer) ==
  IF ends THEN giveBoost ELSE boostTimer

\* "if (this.driftCharge >= 1.0) this.giveBoost()" in the branch that ends a
\* drift: the boost timer after it
BoostOnRelease(ends, driftCharge, boostTimer) ==
  IF ends /\ driftCharge >= FP THEN giveBoost ELSE boostTimer

\* a drift direction that follows the steering while the drift lasts
DriftDirection_Follow(starts, ends, steer, driftDirection) ==
  IF ends THEN 0
  ELSE IF starts \/ driftDirection # 0 THEN Sign(steer)
  ELSE driftDirection

\* this.driftDirection after the branches that start and end a drift
DriftDirection(starts, ends, steer, driftDirection) ==
  IF starts THEN Sign(steer) ELSE IF ends THEN 0 ELSE driftDirection

\* a reset that keeps the drift charge
reset_KeepCharge(c) ==
  [c EXCEPT !.speed = 0, !.isDrifting = FALSE, !.driftDirection = 0,
            !.boostTimer = 0, !.smoothedOutwardPush = 0]

\* ArcadeController.reset()
reset(c) ==
  [c EXCEPT !.speed = 0, !.isDrifting = FALSE, !.driftDirection = 0,
            !.driftCharge = 0, !.boostTimer = 0, !.smoothedOutwardPush = 0]

\* ArcadeController.update(delta, position, heading, inputs): the
\* controller after the call, the moved position and the new heading
ControllerUpdate(c, delta, position, heading, inputs) ==
  LET throttle == inputs.throttle
      brake    == inputs.brake
      steer    == inputs.steer
      drift    == inputs.drift
      speedMultiplier == inputs.speedMultiplier
      \* --- speed control ---
      maxS     == MulFP(Params.maxSpeed, speedMultiplier)
      boosting == c.boostTimer > 0
      targetSpeed == IF boosting THEN MulFP(Params.boostSpeed, speedMultiplier)
                     ELSE maxS
      boostTimer1 == IF boosting THEN c.boostTimer - delta ELSE c.boostTimer
      s0 == IF ~boosting /\ c.speed > maxS
              THEN Lerp(c.speed, maxS, 2 * delta) ELSE c.speed
      s1 == IF throttle > 0
              THEN s0 + MulFP(MulFP(Params.acceleration, throttle), delta)
            ELSE IF brake > 0
              THEN s0 - MulFP(MulFP(Params.brakeForce, brake), delta)
            ELSE IF s0 > 0 THEN Max(s0 - MulFP(Params.friction, delta), 0)
            ELSE IF s0 < 0 THEN Min(s0 + MulFP(Params.friction, delta), 0)
            ELSE s0
      maxAllowedSpeed == IF boostTimer1 > 0 THEN targetSpeed
                         ELSE targetSpeed + 5 * FP
      s2 == Clamp(s1, -Params.reverseSpeed, maxAllowedSpeed)
      \* --- drift mechanics ---
      isMoving == Abs(s2) > 2 * FP
      wantsToDrift == drift /\ isMoving /\ Abs(steer) > 300
      starts == wantsToDrift /\ ~c.isDrifting
      ends   == ~wantsToDrift /\ c.isDrifting
      isDrifting1 == IF starts THEN TRUE ELSE IF ends THEN FALSE
                     ELSE c.isDrifting
      driftDirection1 == DriftDirection(starts, ends, steer, c.driftDirection)
      boostTimer2 == BoostOnRelease(ends, c.driftCharge, boostTimer1)
      charge0 == IF starts \/ ends THEN 0 ELSE c.driftCharge
      angle0  == IF starts \/ ends THEN 0 ELSE c.driftAngle
      charge1 == IF isDrifting1 THEN charge0 + MulFP(Params.driftChargeRate, delta)
                 ELSE charge0
      s3 == IF isDrifting1 /\ s2 < MulFP(Params.maxSpeed, Params.driftSpeedBonus)
              THEN s2 + MulFP(MulFP(Params.acceleration, 200), delta)
            ELSE s2
      angle1 == IF isDrifting1
                  THEN Lerp(angle0, driftDirection1 * 800, MulFP(2500, delta))
                ELSE Lerp(angle0, 0, 8 * delta)
      \* --- turning ---
      speedRatio == DivFP(Abs(s3), Params.maxSpeed)
      turnRate   == Lerp(Params.minTurnSpeed, Params.turnSpeed, speedRatio)
      finalTurnRate == IF isDrifting1 THEN MulFP(turnRate, Params.driftTurnPenalty)
                       ELSE turnRate
      heading1 == IF isMoving /\ Abs(steer) > 50
                    THEN heading - MulFP(MulFP(steer, finalTurnRate), delta)
                  ELSE heading
      \* --- movement ---
      moveDistance == MulFP(s3, delta)
      targetPush == IF isDrifting1 THEN driftDirection1 * Params.driftOutwardPush
                    ELSE 0
      push1 == Lerp(c.smoothedOutwardPush, targetPush, 5 * delta)
      moveHeading == heading1 + push1
      forwardX == SinFP(moveHeading)
      forwardZ == CosFP(moveHeading)
  IN  [controller |-> [speed |-> s3, isDrifting |-> isDrifting1,
                       driftDirection |-> driftDirection1,
                       driftCharge |-> charge1, driftAngle |-> angle1,
                       smoothedOutwardPush |-> push1,
                       boostTimer |-> boostTimer2],
       position |-> [position EXCEPT !.x = @ + MulFP(forwardX, moveDistance),
                                     !.z = @ + MulFP(forwardZ, moveDistance)],
       heading |-> heading1,
       boostActive |-> boostTimer2 > 0]

----------------------------------------------------------------------------
(* Kart *)

\* new Kart(scene, {id, isPlayer}) placed at (x, 0.5, z) with a heading
Kart(id, isPlayer, x, z, heading) ==
  [id |-> id, isPlayer |-> isPlayer, pos |-> Pos(x, FP \div 2, z),
   heading |-> heading, speed |-> 0, controller |-> ArcadeController,
   isDrifting |-> FALSE, boostActive |-> FALSE, wasDrifting |-> FALSE,
   driftCharge |-> 0, driftAngle |-> 0, smoothedOutwardPush |-> 0]

\* Kart.step(delta, inputs): the kart after the step and the events emitted
KartStep(kart, delta, inputs) ==
  Eval(ControllerUpdate(kart.controller, delta, kart.pos, kart.heading, inputs),
       LAMBDA result :
    LET ctl == result.controller
    IN  [kart |-> [kart EXCEPT !.controller = ctl,
                               !.pos = result.position,
                               !.heading = result.heading,
                               !.speed = ctl.speed + 5000 * FP,
                               !.isDrifting = ctl.isDrifting,
                               !.boostActive = result.boostActive,
                               !.driftCharge = ctl.driftCharge,
                               !.driftAngle = ctl.driftAngle,
                               !.smoothedOutwardPush = ctl.smoothedOutwardPush,
                               !.wasDrifting = ctl.isDrifting],
         events |-> IF ctl.isDrifting /\ ~kart.wasDrifting
                      THEN << [type |-> "drift-start", kartId |-> kart.id] >>
                    ELSE IF ~ctl.isDrifting /\ kart.wasDrifting
                      THEN << [type |-> "drift-end", kartId |-> kart.id] >>
                    ELSE <<>>])

----------------------------------------------------------------------------
(* Game *)

NoSlide == [found |-> FALSE]

\* tryWallSlide that tries the Z axis before the X axis
tryWallSlide_ZFirst(t, prevPos, newPos) ==
  LET slideX == Pos(newPos.x, prevPos.y, prevPos.z)
      slideZ == Pos(prevPos.x, prevPos.y, newPos.z)
  IN  IF ~isOutOfBounds(t, slideZ) THEN [found |-> TRUE, pos |-> slideZ]
      ELSE IF ~isOutOfBounds(t, slideX) THEN [found |-> TRUE, pos |-> slideX]
      ELSE NoSlide

\* Game.tryWallSlide(prevPos, newPos): the slide position, or null (NoSlide)
tryWallSlide(t, prevPos, newPos) ==
  LET slideX == Pos(newPos.x, prevPos.y, prevPos.z)
      slideZ == Pos(prevPos.x, prevPos.y, newPos.z)
  IN  IF ~isOutOfBounds(t, slideX) THEN [found |-> TRUE, pos |-> slideX]
      ELSE IF ~isOutOfBounds(t, slideZ) THEN [found |-> TRUE, pos |-> slideZ]
      ELSE NoSlide

WallHit(kart, type) ==
  [type |-> "wall-hit", kartId |-> kart.id, hit |-> type, speed |-> kart.speed]

\* handleCollisions whose stop branch applies the stop penalty twice
handleCollisions_BadStop(g, t, kart, prevPos) ==
  IF ~isOutOfBounds(t, kart.pos) THEN [kart |-> kart, events |-> <<>>]
  ELSE
    LET slidePos == tryWallSlide(t, prevPos, kart.pos)
    IN  IF slidePos.found
          THEN LET k1 == [kart EXCEPT
                     !.pos = slidePos.pos,
                     !.speed = MulFP(@, g.wallSlideSpeedPenalty),
                     !.controller.speed = MulFP(@, g.wallSlideSpeedPenalty)]
               IN  [kart |-> k1, events |-> << WallHit(k1, "slide") >>]
        ELSE LET twice(v) == MulFP(MulFP(v, g.wallStopSpeedPenalty),
                                   g.wallStopSpeedPenalty)
                 k1 == [kart EXCEPT !.pos = prevPos,
                                    !.speed = twice(@),
                                    !.controller.speed = twice(@)]
             IN  [kart |-> k1, events |-> << WallHit(k1, "stop") >>]

\* handleCollisions whose stop branch leaves the kart where the step put it
handleCollisions_NoRestore(g, t, kart, prevPos) ==
  IF ~isOutOfBounds(t, kart.pos) THEN [kart |-> kart, events |-> <<>>]
  ELSE
    LET slidePos == tryWallSlide(t, prevPos, kart.pos)
    IN  IF slidePos.found
          THEN LET k1 == [kart EXCEPT
                     !.pos = slidePos.pos,
                     !.speed = MulFP(@, g.wallSlideSpeedPenalty),
                     !.controller.speed = MulFP(@, g.wallSlideSpeedPenalty)]
               IN  [kart |-> k1, events |-> << WallHit(k1, "slide") >>]
        ELSE LET k1 == [kart EXCEPT
                     !.speed = MulFP(@, g.wallStopSpeedPenalty),
                     !.controller.speed = MulFP(@, g.wallStopSpeedPenalty)]
             IN  [kart |-> k1, events |-> << WallHit(k1, "stop") >>]

\* Game.handleCollisions(kart, prevPos) on track t: the kart afterwards and
\* the events emitted
handleCollisions(g, t, kart, prevPos) ==
  IF ~isOutOfBounds(t, kart.pos) THEN [kart |-> kart, events |-> <<>>]
  ELSE
    LET slidePos == tryWallSlide(t, prevPos, kart.pos)
    IN  IF slidePos.found
          THEN LET k1 == [kart EXCEPT
                     !.pos = slidePos.pos,
                     !.speed = MulFP(@, g.wallSlideSpeedPenalty),
                     !.controller.speed = MulFP(@, g.wallSlideSpeedPenalty)]
               IN  [kart |-> k1, events |-> << WallHit(k1, "slide") >>]
        ELSE LET k1 == [kart EXCEPT
                     !.pos = prevPos,
                     !.speed = MulFP(@, g.wallStopSpeedPenalty),
                     !.controller.speed = MulFP(@, g.wallStopSpeedPenalty)]
             IN  [kart |-> k1, events |-> << WallHit(k1, "stop") >>]

\* winCondition.lapsToWin ?? 3
LapsToWin(g) ==
  IF g.winCondition.lapsToWin = Null THEN 3 ELSE g.winCondition.lapsToWin

\* _checkWin without the "if (this.winner) return" guard
checkWin_NoGuard(g, kartId, lapNumber) ==
  IF ~g.winCondition.enabled THEN [game |-> g, events |-> <<>>]
  ELSE IF lapNumber >= LapsToWin(g)
    THEN [game |-> [g EXCEPT !.winner = kartId, !.isRunning = FALSE],
          events |-> << [type |-> "race-won", kartId |-> kartId] >>]
  ELSE [game |-> g, events |-> <<>>]

\* Game._checkWin(kartId, lapNumber): the game afterwards and the events
checkWin(g, kartId, lapNumber) ==
  IF ~g.winCondition.enabled THEN [game |-> g, events |-> <<>>]
  ELSE IF g.winner # NullId THEN [game |-> g, events |-> <<>>]
  ELSE IF lapNumber >= LapsToWin(g)
    THEN [game |-> [g EXCEPT !.winner = kartId, !.isRunning = FALSE],
          events |-> << [type |-> "race-won", kartId |-> kartId] >>]
  ELSE [game |-> g, events |-> <<>>]

\* the state Game.update works on while it loops over the karts
World ==
  [game |-> game, karts |-> karts, kartStates |-> kartStates,
   kartsInside |-> kartsInside, events |-> <<>>, frameLog |-> <<>>,
   race |-> race]

\* the checkpoint part of the loop body: CheckpointSystem.update for the
\* player every frame and for the other karts every third frame
CheckpointStep(w, kart, t) ==
  IF Len(checkpoints) > 0 /\ (kart.isPlayer \/ w.game.frameCount % 3 = 0)
    THEN update(w.kartStates, w.kartsInside, kart.id, kart.pos, t, t, t)
  ELSE [kartStates |-> w.kartStates, kartsInside |-> w.kartsInside,
        events |-> <<>>, result |-> NoResult]

\* if (result?.type === 'lap') this._checkWin(kart.id, result.lapNumber)
WinStep(w, kart, result) ==
  IF result.type = "lap" THEN checkWin(w.game, kart.id, result.lapNumber)
  ELSE [game |-> w.game, events |-> <<>>]

\* the body of the loop of Game.update for the kart at list index i, with
\* the inputs of its control source and the clock reading t of this frame
KartFrame(w, i, inputs0, delta, t) ==
  LET kart0   == w.karts[i]
      prevPos == kart0.pos
      inputs  == [inputs0 EXCEPT
                    !.speedMultiplier = getSpeedMultiplier(track, kart0.pos)]
  IN
  Eval(KartStep(kart0, delta, inputs), LAMBDA stepped :
  Eval(handleCollisions(w.game, track, stepped.kart, prevPos), LAMBDA hc :
  Eval(CheckpointStep(w, hc.kart, t), LAMBDA cs :
  Eval(WinStep(w, hc.kart, cs.result), LAMBDA win :
    [game |-> win.game,
     karts |-> [w.karts EXCEPT ![i] = hc.kart],
     kartStates |-> cs.kartStates,
     kartsInside |-> cs.kartsInside,
     events |-> w.events \o stepped.events \o hc.events \o cs.events
                \o win.events,
     frameLog |-> Append(w.frameLog,
        [kartId |-> kart0.id, prevPos |-> prevPos,
         stepPos |-> stepped.kart.pos,
         stepSpeed |-> stepped.kart.speed,
         stepCtlSpeed |-> stepped.kart.controller.speed,
         hits |-> hc.events, result |-> cs.result,
         winnerBefore |-> w.game.winner, winnerAfter |-> win.game.winner]),
     race |-> [winnerChanges |-> w.race.winnerChanges
                  + (IF win.game.winner # w.game.winner THEN 1 ELSE 0),
               raceWon |-> w.race.raceWon + Len(win.events),
               qualified |-> w.race.qualified
                  \cup (IF cs.result.type = "lap"
                           /\ cs.result.lapNumber >= LapsToWin(w.game)
                          THEN {kart0.id} ELSE {})]]))))

RECURSIVE KartLoop(_, _, _, _, _, _)
\* for (const kart of this.karts) { ... } from list index i on
KartLoop(w, i, playerInputs, aiInputs, delta, t) ==
  IF i > Len(w.karts) THEN w
  ELSE Eval(KartFrame(w, i, IF w.karts[i].isPlayer THEN playerInputs
                            ELSE aiInputs, delta, t),
            LAMBDA w1 : KartLoop(w1, i + 1, playerInputs, aiInputs, delta, t))

----------------------------------------------------------------------------
(* The race: tracks, start grids and inputs *)

\* a 3 x 3 grid of 2-unit tiles: the centre tile and the tile above it are
\* road, the tile right of the centre is grass, the rest is wall
TrackData ==
  << <<"wall", "straight",     "wall">>,
     <<"wall", "start_finish", "grass">>,
     <<"wall", "wall",         "wall">> >>

RaceTrack ==
  [tileSize |-> 2 * FP, width |-> Len(TrackData[1]), height |-> Len(TrackData),
   trackData |-> TrackData]

\* Track.loadCheckpoints: one finish line across the upper road tile
RaceCheckpoints == << Cp(0, 0, 0 - 3, 0, 4, TRUE) >>

\* start grids: the karts near the corners of the centre tile and heading
\* into them, or side by side heading for the finish line
StartGrids ==
  { << Kart("player", TRUE, 900, 900, 785),
       Kart("cpu-1", FALSE, 0 - 900, 900, 0 - 785) >>,
    << Kart("player", TRUE, 0 - 900, 0 - 900, 0 - 2356),
       Kart("cpu-1", FALSE, 900, 0 - 900, 2356) >>,
    << Kart("player", TRUE, 0, 0 - 800, 3142),
       Kart("cpu-1", FALSE, 500, 0 - 800, 3142) >> }

WinConditions ==
  { [lapsToWin |-> 1, enabled |-> TRUE],
    [lapsToWin |-> Null, enabled |-> TRUE],
    [lapsToWin |-> 1, enabled |-> FALSE] }

\* what a control source hands to Kart.step; speedMultiplier is filled in
\* by Game.update
Inputs(throttle, brake, steer, drift) ==
  [throttle |-> throttle, brake |-> brake, steer |-> steer, drift |-> drift,
   speedMultiplier |-> FP]

\* InputManager.getState(): no key, accelerate, accelerate while steering
\* right with the drift key down, brake
PlayerInputs ==
  { Inputs(0, 0, 0, FALSE), Inputs(FP, 0, 0, FALSE),
    Inputs(FP, 0, FP, TRUE), Inputs(0, FP, 0, FALSE) }

\* WaypointAI.getInputs(): full throttle straight ahead, or steering at
\* steeringStrength with throttle maxSpeed * (1 - |steer| * 0.3)
AiInputs ==
  { Inputs(FP, 0, 0, FALSE), Inputs(760, 0, 800, FALSE) }

\* clock.getDelta(): a frame of a tenth of a second
Delta == FP \div 10

InitGame ==
  /\ checkpoints = RaceCheckpoints
  /\ kartsInside = [i \in 1..Len(RaceCheckpoints) |-> {}]
  /\ runCount = [k \in KartIds |-> [i \in 1..Len(RaceCheckpoints) |->
                                      [reached |-> 0, laps |-> 0]]]
  /\ kartStates = <<>>
  /\ now = 0
  /\ events = <<>>
  /\ lastCall = [op |-> "init"]
  /\ lapLog = [k \in KartIds |-> <<>>]
  /\ \E wc \in WinConditions : game = Game(wc)
  /\ karts \in StartGrids
  /\ track = RaceTrack
  /\ frameLog = <<>>
  /\ race = NoRace
  /\ NoAux

\* Game.start()
Start ==
  /\ game' = [game EXCEPT !.isRunning = TRUE, !.winner = NullId]
  /\ race' = NoRace
  /\ events' = <<>>
  /\ frameLog' = <<>>
  /\ lastCall' = [op |-> "start"]
  /\ UNCHANGED <<checkpoints, kartsInside, kartStates, now, lapLog, runCount,
                 karts, track, auxVars>>

\* Game.stop()
Stop ==
  /\ game' = [game EXCEPT !.isRunning = FALSE]
  /\ events' = <<>>
  /\ frameLog' = <<>>
  /\ lastCall' = [op |-> "stop"]
  /\ UNCHANGED <<checkpoints, kartsInside, kartStates, now, lapLog, runCount,
                 karts, track, race, auxVars>>

\* Game.update(): one frame.  When the game is not running or has a winner
\* the call returns at once and changes nothing.
GameUpdate(playerInputs, aiInputs) ==
  /\ game.isRunning
  /\ game.winner = NullId
  /\ game.frameCount < MaxFrames
  /\ Len(karts) > 0
  /\ \E w \in { KartLoop(World, 1, playerInputs, aiInputs, Delta, now + Delta) } :
       /\ game' = [w.game EXCEPT !.frameCount = @ + 1]
       /\ karts' = w.karts
       /\ kartStates' = w.kartStates
       /\ kartsInside' = w.kartsInside
       /\ events' = w.events
       /\ frameLog' = w.frameLog
       /\ race' = w.race
  /\ now' = now + Delta
  /\ lastCall' = [op |-> "frame"]
  /\ UNCHANGED <<checkpoints, lapLog, runCount, track, auxVars>>

NextGame ==
  \/ Start
  \/ Stop
  \/ \E p \in PlayerInputs, a \in AiInputs : GameUpdate(p, a)

SpecGame == InitGame /\ [][NextGame]_vars

----------------------------------------------------------------------------
(* Properties of the game loop (checked under SpecGame) *)

\* the kinds of the wall-hit events of a kart among the events of the frame
WallHitsOf(kartId) ==
  LET idx == { n \in 1..Len(events) : /\ events[n].type = "wall-hit"
                                       /\ events[n].kartId = kartId }
  IN  [h \in { events[n].hit : n \in idx } |->
         Cardinality({ n \in idx : events[n].hit = h })]

RaceWonEvents ==
  Cardinality({ n \in 1..Len(events) : events[n].type = "race-won" })

\* the two axis-separated positions Game.tryWallSlide looks at for the kart
\* of a frame-log entry
SlideXOf(e) == Pos(e.stepPos.x, e.prevPos.y, e.prevPos.z)
SlideZOf(e) == Pos(e.prevPos.x, e.prevPos.y, e.stepPos.z)
Drivable(position) == ~isOutOfBounds(track, position)

\* C7 (single winner): since the last Game.start(), the winner has changed at
\* most once and race-won has been emitted at most once; a winner is a kart
\* for which a lap result with lapNumber >= lapsToWin was returned; and a
\* kart handled in a frame after a winner exists leaves the winner as it is.
C7_SingleWinner ==
  /\ race.winnerChanges <= 1
  /\ race.raceWon <= 1
  /\ RaceWonEvents <= 1
  /\ game.winner # NullId => /\ game.winner \in race.qualified
                             /\ game.winner \in { karts[i].id : i \in DOMAIN karts }
  /\ \A i \in DOMAIN frameLog :
       frameLog[i].winnerBefore # NullId
         => frameLog[i].winnerAfter = frameLog[i].winnerBefore

\* a frame in which a kart got a lap result after another kart had won
C7_Witness ==
  \E i \in DOMAIN frameLog :
     /\ frameLog[i].winnerBefore # NullId
     /\ frameLog[i].result.type = "lap"
     /\ frameLog[i].result.lapNumber >= LapsToWin(game)
     /\ frameLog[i].kartId # game.winner

\* C8 (slide resolution, X before Z): when Kart.step left a kart out of bounds
\* and one of the two axis-separated positions is drivable, the kart ends the
\* frame at (x1, z0) if that is drivable and otherwise at (x0, z1), both of
\* its speeds are the speeds after the step times the slide penalty, and the
\* frame has exactly one wall-hit event for it, of type slide.
C8_SlideResolution ==
  \A i \in DOMAIN frameLog :
     LET e == frameLog[i]
         k == karts[i]
     IN  /\ isOutOfBounds(track, e.stepPos)
         /\ Drivable(SlideXOf(e)) \/ Drivable(SlideZOf(e))
         => /\ k.pos = IF Drivable(SlideXOf(e)) THEN SlideXOf(e) ELSE SlideZOf(e)
            /\ k.speed = MulFP(e.stepSpeed, game.wallSlideSpeedPenalty)
            /\ k.controller.speed
                 = MulFP(e.stepCtlSpeed, game.wallSlideSpeedPenalty)
            /\ WallHitsOf(k.id) = [h \in {"slide"} |-> 1]

\* a frame in which one kart could slide along Z only and another along
\* both axes, each out of bounds with both coordinates changed
C8_Witness ==
  \E i, j \in DOMAIN frameLog :
     LET e == frameLog[i]
         f == frameLog[j]
     IN  /\ isOutOfBounds(track, e.stepPos) /\ isOutOfBounds(track, f.stepPos)
         /\ ~Drivable(SlideXOf(e)) /\ Drivable(SlideZOf(e))
         /\ Drivable(SlideXOf(f)) /\ Drivable(SlideZOf(f))
         /\ SlideXOf(f) # SlideZOf(f)
         /\ karts[i].pos = SlideZOf(e) /\ karts[j].pos = SlideXOf(f)

\* C9 (stop resolution): when Kart.step left a kart out of bounds and both
\* axis-separated positions are out of bounds too, the kart ends the frame
\* where it was before the step, both of its speeds are the speeds after the
\* step times the stop penalty, and the frame has exactly one wall-hit event
\* for it, of type stop.
C9_StopResolution ==
  \A i \in DOMAIN frameLog :
     LET e == frameLog[i]
         k == karts[i]
     IN  /\ isOutOfBounds(track, e.stepPos)
         /\ ~Drivable(SlideXOf(e)) /\ ~Drivable(SlideZOf(e))
         => /\ k.pos = e.prevPos
            /\ k.speed = MulFP(e.stepSpeed, game.wallStopSpeedPenalty)
            /\ k.controller.speed
                 = MulFP(e.stepCtlSpeed, game.wallStopSpeedPenalty)
            /\ WallHitsOf(k.id) = [h \in {"stop"} |-> 1]

\* the third frame in a row in which a kart was stopped in a corner: at full
\* throttle its controller speed is ((3 / 2 + 3) / 2 + 3) / 2 = 2.625
C9_Witness ==
  /\ game.frameCount = 3
  /\ \E i \in DOMAIN frameLog :
       LET e == frameLog[i]
       IN  /\ isOutOfBounds(track, e.stepPos)
           /\ ~Drivable(SlideXOf(e)) /\ ~Drivable(SlideZOf(e))
           /\ e.stepCtlSpeed = 5250
           /\ karts[i].controller.speed = 2625
           /\ karts[i].pos = e.prevPos

\* C10 (speed fields in sync): every kart's reported speed equals its
\* controller's speed.
C10_SpeedInSync ==
  \A i \in DOMAIN karts : karts[i].speed = karts[i].controller.speed

----------------------------------------------------------------------------
(* An ArcadeController driven on its own *)

MaxCalls == 4      \* ArcadeController.update calls explored per controller

\* inputs of InputManager, and of a WaypointAI built with maxSpeed 2 or with
\* steeringStrength 1.5 (throttle maxSpeed * (1 - |steer| * 0.3)), and a
\* brake value above 1
ArcadeInputs ==
  { Inputs(FP, 0, 0, FALSE), Inputs(FP, 0, FP, TRUE), Inputs(0, 0, 0, FALSE),
    Inputs(0, FP, 0, FALSE), Inputs(2 * FP, 0, 0, FALSE),
    Inputs(1100, 0, 0 - 1500, FALSE), Inputs(0, 1500, 0, FALSE) }

\* frame times and surface multipliers (road, grass)
ArcadeDeltas == { FP \div 10, FP \div 2 }
SurfaceMultipliers == { FP, 6 * (FP \div 10) }

InitArcade ==
  /\ checkpoints = <<>> /\ kartsInside = <<>> /\ kartStates = <<>>
  /\ now = 0 /\ events = <<>> /\ lastCall = [op |-> "init"]
  /\ lapLog = [k \in KartIds |-> <<>>]
  /\ runCount = [k \in KartIds |-> <<>>]
  /\ NoGame
  /\ probe = Unused /\ cpu = Unused /\ bus = Unused /\ editor = Unused
  /\ \E delta \in ArcadeDeltas, sm \in SurfaceMultipliers :
       arcade = [controller |-> ArcadeController,
                 position |-> Pos(0, FP \div 2, 0), heading |-> 0,
                 delta |-> delta, speedMultiplier |-> sm,
                 calls |-> 0, sustained |-> TRUE, boosted |-> FALSE,
                 last |-> [called |-> FALSE]]

\* controller.update(delta, position, heading, inputs) on the surface and
\* with the frame time of this run
ArcadeUpdate(inputs0) ==
  /\ arcade.calls < MaxCalls
  /\ LET inputs == [inputs0 EXCEPT !.speedMultiplier = arcade.speedMultiplier]
     IN  \E r \in { ControllerUpdate(arcade.controller, arcade.delta,
                                     arcade.position, arcade.heading, inputs) } :
           arcade' = [arcade EXCEPT
              !.controller = r.controller,
              !.position = r.position,
              !.heading = r.heading,
              !.calls = @ + 1,
              !.sustained = @ /\ inputs.throttle = FP /\ ~inputs.drift,
              !.boosted = @ \/ arcade.controller.boostTimer > 0
                            \/ r.controller.boostTimer > 0,
              !.last = [called |-> TRUE, controller |-> arcade.controller,
                        position |-> arcade.position,
                        heading |-> arcade.heading, inputs |-> inputs,
                        boostActive |-> r.boostActive]]
  /\ UNCHANGED <<csVars, gameVars, probe, cpu, bus, editor>>

NextArcade == \E inputs \in ArcadeInputs : ArcadeUpdate(inputs)

SpecArcade == InitArcade /\ [][NextArcade]_vars

----------------------------------------------------------------------------
(* Properties of the ArcadeController (checked under SpecArcade) *)

\* C11 (speed cap under sustained throttle): while every call so far had
\* throttle = 1 and no drift request, and no boost was ever active, the speed
\* is at most maxSpeed * speedMultiplier.
C11_SpeedCap ==
  arcade.sustained /\ ~arcade.boosted
    => arcade.controller.speed <= MulFP(Params.maxSpeed, arcade.speedMultiplier)

\* the last call ended a drift
LeftDrift ==
  /\ arcade.last.called
  /\ arcade.last.controller.isDrifting
  /\ ~arcade.controller.isDrifting

\* C12 (drift payoff): on the call that ends a drift, a drift charge of at
\* least 1.0 before the call sets the boost timer to boostDuration and the
\* call returns boostActive; with a smaller charge the boost timer does not
\* grow and boostActive is returned only if a boost was already running.
C12_DriftPayoff ==
  LeftDrift =>
    IF arcade.last.controller.driftCharge >= FP
      THEN /\ arcade.controller.boostTimer = Params.boostDuration
           /\ arcade.last.boostActive
    ELSE /\ arcade.controller.boostTimer <= arcade.last.controller.boostTimer
         /\ arcade.last.boostActive => arcade.last.controller.boostTimer > 0

\* a drift that was released with a full charge and started a boost
C12_Witness ==
  /\ LeftDrift
  /\ arcade.last.controller.driftCharge >= FP
  /\ arcade.last.controller.boostTimer = 0
  /\ arcade.controller.boostTimer = Params.boostDuration

\* an input record with throttle and brake brought into [0, 1] and steer
\* into [-1, 1]
ClampInputs(inputs) ==
  [inputs EXCEPT !.throttle = Clamp(@, 0, FP), !.brake = Clamp(@, 0, FP),
                 !.steer = Clamp(@, -FP, FP)]

\* C13 (inputs are clamped): the last call left the speed, heading and
\* position that the same call with clamped inputs gives.
C13_InputsClamped ==
  arcade.last.called =>
    LET r == ControllerUpdate(arcade.last.controller, arcade.delta,
                              arcade.last.position, arcade.last.heading,
                              ClampInputs(arcade.last.inputs))
    IN  /\ r.controller.speed = arcade.controller.speed
        /\ r.heading = arcade.heading
        /\ r.position = arcade.position

----------------------------------------------------------------------------
(* Track queries on their own *)

NoCell == [row |-> 0 - 1, col |-> 0 - 1]
NoPosition == [found |-> FALSE]

\* Track.worldToGrid with its bounds check (NoCell stands for null)
worldToGridChecked(t, position) ==
  LET g == worldToGrid(t, position)
  IN  IF InGrid(t, g) THEN g ELSE NoCell

\* gridToWorld that answers with the cell's corner instead of its centre
gridToWorld_Corner(t, row, col) ==
  IF row < 0 \/ row >= t.height \/ col < 0 \/ col >= t.width THEN NoPosition
  ELSE Pos(((2 * col - t.width) * t.tileSize) \div 2, FP \div 2,
           ((2 * row - t.height) * t.tileSize) \div 2)

\* Track.gridToWorld(row, col): (col - width / 2) * tileSize + tileSize / 2
\* and the same for the row (NoPosition stands for null)
gridToWorld(t, row, col) ==
  IF row < 0 \/ row >= t.height \/ col < 0 \/ col >= t.width THEN NoPosition
  ELSE Pos(((2 * col - t.width) * t.tileSize) \div 2 + t.tileSize \div 2,
           FP \div 2,
           ((2 * row - t.height) * t.tileSize) \div 2 + t.tileSize \div 2)

\* Track.loadTrack(trackData) with a tile size
LoadTrack(trackData, tileSize) ==
  [tileSize |-> tileSize,
   width |-> IF Len(trackData) > 0 THEN Len(trackData[1]) ELSE 0,
   height |-> Len(trackData), trackData |-> trackData]

\* layouts: the race track, one with a barrier, an id the registry does not
\* have and a short last row, one without a drivable tile, a single row,
\* and the empty layout
Layouts ==
  { TrackData,
    << <<"straight", "barrier", "grass">>,
       <<"lava", "start_finish", "empty">>,
       <<"grass", "straight">> >>,
    << <<"wall", "barrier">>, <<"empty", "lava">> >>,
    << <<"straight", "grass", "wall", "start_finish">> >>,
    << >> }

\* tile sizes 2, 2.5 and 10
TileSizes == { 2 * FP, 2500, 10 * FP }

\* world coordinates around the cell borders of those grids
ProbeCoords ==
  { 0 - 5001, 0 - 5000, 0 - 3000, 0 - 2500, 0 - 1000, 0 - 1, 0, 1250,
    2999, 3000, 4999 }

ProbeCells == { [row |-> r, col |-> c] : r \in (0 - 1)..3, c \in (0 - 1)..4 }

InitTrack ==
  /\ checkpoints = <<>> /\ kartsInside = <<>> /\ kartStates = <<>>
  /\ now = 0 /\ events = <<>> /\ lastCall = [op |-> "init"]
  /\ lapLog = [k \in KartIds |-> <<>>]
  /\ runCount = [k \in KartIds |-> <<>>]
  /\ NoGame
  /\ arcade = Unused /\ cpu = Unused /\ bus = Unused /\ editor = Unused
  /\ \E data \in Layouts, size \in TileSizes :
       probe = [track |-> LoadTrack(data, size), op |-> "none"]

\* isOutOfBounds(p), worldToGrid(p) and gridToWorld of the cell found
QueryPosition(p) ==
  /\ LET t == probe.track
         g == worldToGridChecked(t, p)
     IN  probe' = [track |-> t, op |-> "position", position |-> p,
                   outOfBounds |-> isOutOfBounds(t, p),
                   speedMultiplier |-> getSpeedMultiplier(t, p),
                   grid |-> g,
                   centre |-> gridToWorld(t, g.row, g.col)]
  /\ UNCHANGED <<csVars, gameVars, arcade, cpu, bus, editor>>

\* gridToWorld(row, col) and worldToGrid of the point found
QueryCell(cell) ==
  /\ LET t == probe.track
         w == gridToWorld(t, cell.row, cell.col)
     IN  probe' = [track |-> t, op |-> "cell", cell |-> cell, world |-> w,
                   back |-> IF w = NoPosition THEN NoCell
                            ELSE worldToGridChecked(t, w)]
  /\ UNCHANGED <<csVars, gameVars, arcade, cpu, bus, editor>>

NextTrack ==
  \/ \E x \in ProbeCoords, z \in ProbeCoords : QueryPosition(Pos(x, FP \div 2, z))
  \/ \E cell \in ProbeCells : QueryCell(cell)

SpecTrack == InitTrack /\ [][NextTrack]_vars

----------------------------------------------------------------------------
(* Properties of the Track queries (checked under SpecTrack) *)

\* the ids of the registry's tiles that can be driven on
DrivableIds ==
  { TileRegistry[key].id : key \in { k \in DOMAIN TileRegistry :
                                       TileRegistry[k].collision } }

\* the grid extent of a track: centred on the world origin
InExtent(t, p) ==
  /\ 0 - t.width * t.tileSize <= 2 * p.x /\ 2 * p.x < t.width * t.tileSize
  /\ 0 - t.height * t.tileSize <= 2 * p.z /\ 2 * p.z < t.height * t.tileSize

\* the cells whose square contains p
CellsContaining(t, p) ==
  { c \in { [row |-> r, col |-> k] : r \in 0..(t.height - 1),
                                     k \in 0..(t.width - 1) } :
      /\ (2 * c.col - t.width) * t.tileSize <= 2 * p.x
      /\ 2 * p.x < (2 * c.col + 2 - t.width) * t.tileSize
      /\ (2 * c.row - t.height) * t.tileSize <= 2 * p.z
      /\ 2 * p.z < (2 * c.row + 2 - t.height) * t.tileSize }

\* C14 (out-of-bounds query): isOutOfBounds(p) is true exactly when p is
\* outside the grid extent or the layout has no tile id that can be driven on
\* in the cell containing p.
C14_OutOfBounds ==
  probe.op = "position" =>
    LET t == probe.track
        p == probe.position
    IN  probe.outOfBounds
          <=> \/ ~InExtent(t, p)
              \/ \A c \in CellsContaining(t, p) :
                    \/ c.col + 1 \notin DOMAIN t.trackData[c.row + 1]
                    \/ t.trackData[c.row + 1][c.col + 1] \notin DrivableIds

\* a point inside the extent whose cell holds an id the registry lacks
C14_Witness ==
  /\ probe.op = "position"
  /\ InExtent(probe.track, probe.position)
  /\ probe.outOfBounds
  /\ \E c \in CellsContaining(probe.track, probe.position) :
        /\ c.col + 1 \in DOMAIN probe.track.trackData[c.row + 1]
        /\ probe.track.trackData[c.row + 1][c.col + 1] = "lava"

\* C15 (grid / world round trip): worldToGrid(gridToWorld(row, col)) is
\* (row, col) for every cell of the grid, and for a point p inside the
\* extent gridToWorld(worldToGrid(p)) is the centre of the cell containing
\* p, at most tileSize / 2 from p on each axis.
C15_RoundTrip ==
  LET t == probe.track
  IN  /\ probe.op = "cell" /\ probe.cell.row \in 0..(t.height - 1)
                           /\ probe.cell.col \in 0..(t.width - 1)
        => probe.back = probe.cell
      /\ probe.op = "position" /\ InExtent(t, probe.position)
        => /\ probe.grid \in CellsContaining(t, probe.position)
           /\ probe.centre # NoPosition
           /\ 2 * Abs(probe.centre.x - probe.position.x) <= t.tileSize
           /\ 2 * Abs(probe.centre.z - probe.position.z) <= t.tileSize
           /\ worldToGridChecked(t, probe.centre) = probe.grid

\* a point on the low border of a cell other than the first, with a tile
\* size of 2.5: the centre is exactly tileSize / 2 away
C15_Witness ==
  /\ probe.op = "position"
  /\ InExtent(probe.track, probe.position)
  /\ probe.track.tileSize = 2500
  /\ probe.grid.col > 0
  /\ 2 * (probe.centre.x - probe.position.x) = probe.track.tileSize

----------------------------------------------------------------------------
(* Vectors and angles for the CpuDriver *)

RECURSIVE SqrtBetween(_, _, _)
\* the largest r in lo..hi with r * r <= n
SqrtBetween(n, lo, hi) ==
  IF lo >= hi THEN lo
  ELSE LET mid == (lo + hi + 1) \div 2
       IN  IF mid * mid <= n THEN SqrtBetween(n, mid, hi)
           ELSE SqrtBetween(n, lo, mid - 1)

\* Math.sqrt, rounded down (arguments below 2^31)
Sqrt(n) == SqrtBetween(n, 0, 46340)

\* Vector3 sub, dot and length; lengths are in thousandths like coordinates
Sub(a, b) == Pos(a.x - b.x, a.y - b.y, a.z - b.z)
Dot(a, b) == a.x * b.x + a.y * b.y + a.z * b.z
Length(v) == Sqrt(Dot(v, v))
DistanceTo(a, b) == Length(Sub(a, b))

\* Vector3 lerp: a + (b - a) * t
LerpPos(a, b, t) ==
  Pos(a.x + MulFP(b.x - a.x, t), a.y + MulFP(b.y - a.y, t),
      a.z + MulFP(b.z - a.z, t))

\* Math.atan of a ratio r in [0, 1]:
\* PI/4 * r - r * (r - 1) * (0.2447 + 0.0663 * r), within 0.002 of the arc
AtanUnit(r) ==
  MulFP(785, r) - MulFP(MulFP(r, r - FP), 245 + MulFP(66, r))

\* Math.atan2(y, x), in (-PI, PI]
Atan2FP(y, x) ==
  LET ay == Abs(y)
      ax == Abs(x)
      first == IF ax = 0 /\ ay = 0 THEN 0
               ELSE IF ay <= ax THEN AtanUnit(DivFP(ay, ax))
               ELSE 1571 - AtanUnit(DivFP(ax, ay))
      upper == IF x >= 0 THEN first ELSE 3142 - first
  IN  IF y >= 0 THEN upper ELSE 0 - upper

\* Math.atan2(Math.sin(a), Math.cos(a)): the angle brought into [-PI, PI]
NormalizeAngle(a) == ((a + 3142) % 6284) - 3142

----------------------------------------------------------------------------
(* CpuDriver: the path and its cursor *)

\* the constructor's default options
CpuParams ==
  [targetSpeedFactor |-> FP, cornerSlowdownAngle |-> 1200,
   brakeAggression |-> 600, maxThrottle |-> FP, driftEnabled |-> FALSE,
   targetLeadDistance |-> 50 * FP, lateralSlowdownThreshold |-> 3500,
   stuckSpeedThreshold |-> 600, stuckTimeThreshold |-> 800,
   reverseDuration |-> 900]

\* _recomputeSegmentLengths: the lengths of the path's segments
SegmentLengths(waypoints) ==
  [i \in 1..(IF Len(waypoints) = 0 THEN 0 ELSE Len(waypoints) - 1) |->
     DistanceTo(waypoints[i], waypoints[i + 1])]

RECURSIVE SumTo(_, _)
SumTo(lengths, n) == IF n = 0 THEN 0 ELSE lengths[n] + SumTo(lengths, n - 1)

\* totalPathLength
TotalLength(lengths) == SumTo(lengths, Len(lengths))

NoProjection == [found |-> FALSE, dist |-> 0]

RECURSIVE ProjectFrom(_, _, _, _, _)
\* the loop of _projectOntoPath from segment i on, with the length
\* accumulated so far and the best projection found so far
ProjectFrom(waypoints, pos, i, accumulated, best) ==
  IF i > Len(waypoints) - 1 THEN best
  ELSE
    LET a == waypoints[i]
        seg == Sub(waypoints[i + 1], a)
    IN  Eval(Length(seg), LAMBDA segLen :
          IF segLen < 1
            THEN ProjectFrom(waypoints, pos, i + 1, accumulated + segLen, best)
          ELSE
            Eval(Clamp(((Dot(Sub(pos, a), seg) \div segLen) * FP) \div segLen,
                       0, FP), LAMBDA t :
            Eval(LerpPos(a, waypoints[i + 1], t), LAMBDA proj :
            Eval(DistanceTo(proj, pos), LAMBDA dist :
              ProjectFrom(waypoints, pos, i + 1, accumulated + segLen,
                IF ~best.found \/ dist < best.dist
                  THEN [found |-> TRUE, dist |-> dist, point |-> proj,
                        distanceAlong |-> accumulated + MulFP(segLen, t),
                        segmentIndex |-> i - 1]
                ELSE best)))))

\* CpuDriver._projectOntoPath(pos)
projectOntoPath(waypoints, pos) ==
  ProjectFrom(waypoints, pos, 1, 0, NoProjection)

\* CpuDriver._wrapDistance(d)
wrapDistance(total, d) == IF total <= 0 THEN 0 ELSE d % total

\* _advanceCursor that takes the projection as the new cursor
advanceCursor_Follow(total, current, projected) ==
  IF total <= 0 THEN current
  ELSE current - wrapDistance(total, current) + wrapDistance(total, projected)

\* CpuDriver._advanceCursor(current, projected)
advanceCursor(total, current, projected) ==
  IF total <= 0 THEN current
  ELSE LET currNorm == wrapDistance(total, current)
           projNorm == wrapDistance(total, projected)
           delta    == IF projNorm - currNorm < 0
                         THEN projNorm - currNorm + total
                       ELSE projNorm - currNorm
       IN  IF delta > 100 THEN current + delta ELSE current

RECURSIVE SegmentAt(_, _, _)
\* the loops of _pointAtDistance and _directionAtDistance: the segment on
\* which the distance falls and what remains on it (index 0: past the end)
SegmentAt(lengths, i, remaining) ==
  IF i > Len(lengths) THEN [index |-> 0, remaining |-> remaining]
  ELSE IF remaining <= lengths[i] THEN [index |-> i, remaining |-> remaining]
  ELSE SegmentAt(lengths, i + 1, remaining - lengths[i])

\* CpuDriver._pointAtDistance(distance), for a path with a segment
pointAtDistance(waypoints, lengths, total, distance) ==
  LET at == SegmentAt(lengths, 1, wrapDistance(total, distance))
  IN  IF at.index = 0 THEN waypoints[Len(waypoints)]
      ELSE LerpPos(waypoints[at.index], waypoints[at.index + 1],
                   IF lengths[at.index] < 1 THEN 0
                   ELSE DivFP(at.remaining, lengths[at.index]))

\* CpuDriver._directionAtDistance(distance): the segment's direction
\* (not normalised; only the sign of a dot product with it is used)
directionAtDistance(waypoints, lengths, total, distance) ==
  LET at == SegmentAt(lengths, 1, wrapDistance(total, distance))
  IN  IF at.index = 0 THEN Pos(0, 0, 0)
      ELSE Sub(waypoints[at.index + 1], waypoints[at.index])

NoTarget == [found |-> FALSE]

\* CpuDriver._updatePathCursor(kartPos): the new pathCursor and the value
\* returned (NoTarget for null)
updatePathCursor(c, kartPos) ==
  IF Len(c.waypoints) < 2 \/ c.totalPathLength <= 0
    THEN [pathCursor |-> c.pathCursor, result |-> NoTarget]
  ELSE
    Eval(projectOntoPath(c.waypoints, kartPos), LAMBDA projection :
    Eval(IF projection.found
           THEN advanceCursor(c.totalPathLength, c.pathCursor,
                              projection.distanceAlong)
         ELSE c.pathCursor, LAMBDA cursor :
      LET total == c.totalPathLength
          lead  == CpuParams.targetLeadDistance
          d1 == wrapDistance(total, wrapDistance(total, cursor) + lead)
          p1 == pointAtDistance(c.waypoints, c.segmentLengths, total, d1)
          pathDir == directionAtDistance(c.waypoints, c.segmentLengths,
                                         total, cursor)
          behind == Dot(Sub(p1, kartPos), pathDir) < 0
          d2 == wrapDistance(total, d1 + lead \div 2)
      IN  [pathCursor |-> cursor,
           result |-> [found |-> TRUE,
                       target |-> IF behind
                                    THEN pointAtDistance(c.waypoints,
                                           c.segmentLengths, total, d2)
                                  ELSE p1,
                       projection |-> projection,
                       lateralError |-> IF projection.found
                                          THEN projection.dist ELSE 0]]))

----------------------------------------------------------------------------
(* CpuDriver.getInputs *)

\* new CpuDriver() whose _ensurePath has built the path through waypoints
CpuDriver(waypoints) ==
  [waypoints |-> waypoints,
   segmentLengths |-> SegmentLengths(waypoints),
   totalPathLength |-> TotalLength(SegmentLengths(waypoints)),
   pathCursor |-> 0, stuckTimer |-> 0, reversing |-> FALSE,
   reverseTimer |-> 0]

\* the stuck / reverse part of getInputs: the driver afterwards, for the
\* throttle computed before it
StuckStep(c, kartSpeed, throttle, delta) ==
  IF ~c.reversing
    THEN IF kartSpeed < CpuParams.stuckSpeedThreshold /\ throttle > 200
           THEN IF c.stuckTimer + delta > CpuParams.stuckTimeThreshold
                  THEN [c EXCEPT !.reversing = TRUE,
                                 !.reverseTimer = CpuParams.reverseDuration,
                                 !.stuckTimer = 0]
                ELSE [c EXCEPT !.stuckTimer = @ + delta]
         ELSE [c EXCEPT !.stuckTimer = 0]
  ELSE IF c.reverseTimer - delta <= 0
         THEN [c EXCEPT !.reverseTimer = @ - delta, !.reversing = FALSE]
       ELSE [c EXCEPT !.reverseTimer = @ - delta]

\* CpuDriver.getInputs({kart, track, delta}) once the path is built: the
\* driver afterwards, the inputs returned, and the throttle and brake the
\* call had computed before the stuck / reverse part
getInputs(c, kart, delta) ==
  Eval(updatePathCursor(c, kart.pos), LAMBDA pc :
    IF ~pc.result.found
      THEN [driver |-> [c EXCEPT !.pathCursor = pc.pathCursor],
            inputs |-> Inputs(400, 0, 0, FALSE),
            wanted |-> [throttle |-> 400, brake |-> 0],
            projection |-> NoProjection]
    ELSE
      LET target == pc.result.target
          toX == target.x - kart.pos.x
          toZ == target.z - kart.pos.z
          lateralError == pc.result.lateralError
      IN
      Eval(Sqrt(toX * toX + toZ * toZ), LAMBDA distance :
      Eval(NormalizeAngle(Atan2FP(toX, toZ) - kart.heading), LAMBDA angleDiff :
        LET steer == Clamp(0 - angleDiff, 0 - FP, FP)
            cornerFactor ==
              Clamp(DivFP(Abs(angleDiff), CpuParams.cornerSlowdownAngle), 0, FP)
            baseMax == MulFP(Params.maxSpeed, CpuParams.targetSpeedFactor)
            lateralFactor ==
              IF lateralError > CpuParams.lateralSlowdownThreshold
                THEN Clamp(FP - MulFP(lateralError
                                      - CpuParams.lateralSlowdownThreshold, 250),
                           300, FP)
              ELSE FP
            targetSpeed ==
              MulFP(MulFP(baseMax, FP - MulFP(550, cornerFactor)), lateralFactor)
            shouldBrake ==
              \/ kart.speed > targetSpeed + 4 * FP
              \/ /\ Abs(angleDiff) > CpuParams.cornerSlowdownAngle
                 /\ distance < 12 * FP
            throttleScale == Clamp(FP - MulFP(Abs(angleDiff), 700), 200, FP)
            throttle == IF shouldBrake THEN 0
                        ELSE MulFP(CpuParams.maxThrottle, throttleScale)
            brake == IF shouldBrake THEN CpuParams.brakeAggression ELSE 0
            drift == /\ CpuParams.driftEnabled
                     /\ Abs(angleDiff) > FP
                     /\ kart.speed > MulFP(baseMax, 600)
        IN  Eval(StuckStep([c EXCEPT !.pathCursor = pc.pathCursor],
                           kart.speed, throttle, delta), LAMBDA c1 :
              [driver |-> c1,
               inputs |-> IF c1.reversing
                            THEN Inputs(0, Max(brake, 800), steer, drift)
                          ELSE Inputs(throttle, brake, steer, drift),
               wanted |-> [throttle |-> throttle, brake |-> brake],
               projection |-> pc.result.projection]))))

----------------------------------------------------------------------------
(* A CpuDriver asked for inputs, for karts anywhere on the track *)

MaxDriverCalls == 4   \* CpuDriver.getInputs calls explored per driver

\* paths as _ensurePath leaves them: a closed loop along the tile centres of
\* a square circuit of 20 units a side, and the empty path of a track
\* without checkpoints
CpuPaths ==
  { << Pos(0, 500, 0), Pos(20 * FP, 500, 0), Pos(20 * FP, 500, 20 * FP),
       Pos(0, 500, 20 * FP), Pos(0, 500, 0) >>,
    << >> }

\* karts: near each side of the circuit, heading along +Z, +X or -X, at
\* rest or at half speed
DriverKarts ==
  { [pos |-> Pos(x * FP, 500, z * FP), heading |-> h, speed |-> v] :
      x \in {5}, z \in {1}, h \in {0, 1571, 0 - 1571}, v \in {0, 20 * FP} }
  \cup
  { [pos |-> q, heading |-> 0, speed |-> 0] :
      q \in { Pos(19 * FP, 500, 10 * FP), Pos(10 * FP, 500, 21 * FP),
              Pos(0 - FP, 500, 10 * FP) } }

DriverDeltas == { FP \div 2 }

InitCpu ==
  /\ checkpoints = <<>> /\ kartsInside = <<>> /\ kartStates = <<>>
  /\ now = 0 /\ events = <<>> /\ lastCall = [op |-> "init"]
  /\ lapLog = [k \in KartIds |-> <<>>]
  /\ runCount = [k \in KartIds |-> <<>>]
  /\ NoGame
  /\ arcade = Unused /\ probe = Unused /\ bus = Unused /\ editor = Unused
  /\ \E waypoints \in CpuPaths :
       cpu = [driver |-> CpuDriver(waypoints), calls |-> 0, stuckFor |-> 0,
              reversedFor |-> 0, last |-> [called |-> FALSE]]

\* aiDriver.getInputs({kart, track, delta})
GetInputs(kart, delta) ==
  /\ cpu.calls < MaxDriverCalls
  /\ \E r \in { getInputs(cpu.driver, kart, delta) } :
       cpu' = [driver |-> r.driver,
               calls |-> cpu.calls + 1,
               stuckFor |-> IF /\ ~cpu.driver.reversing
                               /\ r.wanted.throttle > 0
                               /\ r.wanted.brake = 0
                               /\ kart.speed < CpuParams.stuckSpeedThreshold
                              THEN cpu.stuckFor + delta ELSE 0,
               reversedFor |-> IF cpu.driver.reversing
                                 THEN cpu.reversedFor + delta ELSE 0,
               last |-> [called |-> TRUE, kart |-> kart, delta |-> delta,
                         driver |-> cpu.driver, inputs |-> r.inputs,
                         wanted |-> r.wanted, projection |-> r.projection]]
  /\ UNCHANGED <<csVars, gameVars, arcade, probe, bus, editor>>

NextCpu == \E kart \in DriverKarts, delta \in DriverDeltas : GetInputs(kart, delta)

SpecCpu == InitCpu /\ [][NextCpu]_vars

----------------------------------------------------------------------------
(* Properties of the CpuDriver (checked under SpecCpu) *)

C17_StuckDetector ==
  /\ cpu.stuckFor > CpuParams.stuckTimeThreshold => cpu.driver.reversing
  /\ cpu.last.called /\ cpu.driver.reversing
       => cpu.last.inputs.throttle = 0 /\ cpu.last.inputs.brake >= 800
  /\ cpu.reversedFor >= CpuParams.reverseDuration => ~cpu.driver.reversing

----------------------------------------------------------------------------
(* DirectionField with fewer than two waypoints *)

\* new DirectionField(options) for options.waypoints of length 0 or 1: the
\* constructor skips generateField for no waypoint, and generateField
\* returns after generatePath gave null for one; the field stays []
DirectionField(gridWidth, gridHeight, tileSize, waypoints) ==
  [gridWidth |-> gridWidth, gridHeight |-> gridHeight, tileSize |-> tileSize,
   waypoints |-> waypoints, field |-> << >>, path |-> Null]

Vec2(x, y) == [x |-> x, y |-> y]

\* a call that ended in a TypeError
Thrown == [threw |-> TRUE]

Returned(value) == [threw |-> FALSE, value |-> value]

\* DirectionField.getDirectionAt(position); this.field[row] of a missing row
\* is undefined, and reading [col] of undefined throws, as does .clone() of
\* a missing column
getDirectionAt(f, position) ==
  LET col == (position.x + (f.gridWidth * f.tileSize) \div 2) \div f.tileSize
      row == (position.z + (f.gridHeight * f.tileSize) \div 2) \div f.tileSize
  IN  IF row < 0 \/ row >= f.gridHeight \/ col < 0 \/ col >= f.gridWidth
        THEN Returned(Vec2(0, 0))
      ELSE IF row + 1 > Len(f.field) THEN Thrown
      ELSE IF col + 1 > Len(f.field[row + 1]) THEN Thrown
      ELSE Returned(f.field[row + 1][col + 1])

\* DirectionField.getTargetAhead(position, distance)
getTargetAhead(f, position, distance) ==
  Eval(getDirectionAt(f, position), LAMBDA direction :
    IF direction.threw THEN Thrown
    ELSE Returned(Pos(position.x + MulFP(direction.value.x, distance),
                      position.y,
                      position.z + MulFP(direction.value.y, distance))))

FieldWidths == {2, 3}
FieldHeights == {2, 4}
FieldTileSizes == {2 * FP, 10 * FP}

\* options.waypoints with fewer than two entries
FewWaypoints == { << >>, << [position |-> Pos(FP, 0, FP)] >> }

FieldCoords == {0 - 25 * FP, 0 - 3 * FP, 0 - 1, 0, 1500, 4 * FP, 15 * FP}
FieldPositions == { Pos(x, 500, z) : x \in FieldCoords, z \in FieldCoords }
FieldDistances == {0, 5 * FP}

InitField ==
  /\ checkpoints = <<>> /\ kartsInside = <<>> /\ kartStates = <<>>
  /\ now = 0 /\ events = <<>> /\ lastCall = [op |-> "init"]
  /\ lapLog = [k \in KartIds |-> <<>>]
  /\ runCount = [k \in KartIds |-> <<>>]
  /\ NoGame
  /\ arcade = Unused /\ cpu = Unused /\ bus = Unused /\ editor = Unused
  /\ \E w \in FieldWidths, h \in FieldHeights, ts \in FieldTileSizes,
        wps \in FewWaypoints :
       probe = [field |-> DirectionField(w, h, ts, wps),
                last |-> [op |-> "init"]]

\* directionField.getDirectionAt(position)
GetDirectionAt(position) ==
  /\ probe' = [probe EXCEPT !.last =
                 [op |-> "getDirectionAt", position |-> position,
                  result |-> getDirectionAt(probe.field, position)]]
  /\ UNCHANGED <<csVars, gameVars, arcade, cpu, bus, editor>>

\* directionField.getTargetAhead(position, distance)
GetTargetAhead(position, distance) ==
  /\ probe' = [probe EXCEPT !.last =
                 [op |-> "getTargetAhead", position |-> position,
                  distance |-> distance,
                  result |-> getTargetAhead(probe.field, position, distance)]]
  /\ UNCHANGED <<csVars, gameVars, arcade, cpu, bus, editor>>

NextField ==
  \/ \E position \in FieldPositions : GetDirectionAt(position)
  \/ \E position \in FieldPositions, distance \in FieldDistances :
       GetTargetAhead(position, distance)

SpecField == InitField /\ [][NextField]_vars

\* C18 (degenerate direction field): with fewer than 2 waypoints,
\* getDirectionAt(p) returns the zero vector without throwing for every
\* position p, inside or outside the grid extent, and getTargetAhead(p, d)
\* returns p.
C18_DegenerateField ==
  Len(probe.field.waypoints) < 2 =>
    /\ probe.last.op = "getDirectionAt"
         => probe.last.result = Returned(Vec2(0, 0))
    /\ probe.last.op = "getTargetAhead"
         => probe.last.result = Returned(probe.last.position)

----------------------------------------------------------------------------
(* EventBus *)

MaxListeners == 3   \* registrations on the bus that on() and emit() start from

EventNames == {"lap-completed", "race-won"}

\* the callbacks registered: "log" only reads the data, "fail" throws,
\* "once" removes itself from the event, "drop" removes "log" from it,
\* "spawn" registers "log" for it
Callbacks == {"log", "fail", "once", "drop", "spawn"}

\* new EventBus(): this.listeners = new Map()
EventBus == << >>

Has(listeners, eventName) == eventName \in DOMAIN listeners

\* callbacks.indexOf(callback), 1-based, 0 when absent
IndexOf(callbacks, callback) ==
  IF \E i \in 1..Len(callbacks) : callbacks[i] = callback
    THEN CHOOSE i \in 1..Len(callbacks) :
           /\ callbacks[i] = callback
           /\ \A j \in 1..(i - 1) : callbacks[j] # callback
  ELSE 0

\* callbacks.splice(index, 1)
Splice(callbacks, index) ==
  SubSeq(callbacks, 1, index - 1) \o SubSeq(callbacks, index + 1, Len(callbacks))

\* EventBus.on(eventName, callback)
on(listeners, eventName, callback) ==
  IF Has(listeners, eventName)
    THEN [listeners EXCEPT ![eventName] = Append(@, callback)]
  ELSE MapSet(listeners, eventName, << callback >>)

\* EventBus.off(eventName, callback)
off(listeners, eventName, callback) ==
  IF ~Has(listeners, eventName) THEN listeners
  ELSE IF IndexOf(listeners[eventName], callback) = 0 THEN listeners
  ELSE [listeners EXCEPT
          ![eventName] = Splice(@, IndexOf(listeners[eventName], callback))]

\* callback(data) for a callback invoked by emit(eventName, data): the
\* listeners it leaves behind
Invoke(listeners, eventName, callback) ==
  CASE callback = "once"  -> off(listeners, eventName, "once")
    [] callback = "drop"  -> off(listeners, eventName, "log")
    [] callback = "spawn" -> on(listeners, eventName, "log")
    [] OTHER -> listeners

\* whether callback(data) throws
Throws(callback) == callback = "fail"

\* Array.prototype.forEach over the live callbacks array, every call made
\* inside try / catch: the length is read once, index k is visited when the
\* array still has it
RECURSIVE ForEach(_, _, _, _, _)
ForEach(listeners, eventName, k, len, invoked) ==
  IF k >= len THEN [listeners |-> listeners, invoked |-> invoked]
  ELSE IF ~Has(listeners, eventName) \/ k >= Len(listeners[eventName])
    THEN ForEach(listeners, eventName, k + 1, len, invoked)
  ELSE ForEach(Invoke(listeners, eventName, listeners[eventName][k + 1]),
               eventName, k + 1, len,
               Append(invoked, [callback |-> listeners[eventName][k + 1],
                                threw |-> Throws(listeners[eventName][k + 1])]))

\* EventBus.emit(eventName, data)
emit(listeners, eventName) ==
  IF ~Has(listeners, eventName)
    THEN [listeners |-> listeners, invoked |-> << >>]
  ELSE ForEach(listeners, eventName, 0, Len(listeners[eventName]), << >>)

\* EventBus.listenerCount(eventName)
listenerCount(listeners, eventName) ==
  IF Has(listeners, eventName) THEN Len(listeners[eventName]) ELSE 0

RECURSIVE SumCounts(_, _)
SumCounts(listeners, names) ==
  IF names = {} THEN 0
  ELSE LET n == CHOOSE x \in names : TRUE
       IN  listenerCount(listeners, n) + SumCounts(listeners, names \ {n})

Registrations(listeners) == SumCounts(listeners, DOMAIN listeners)

NoEmit == [called |-> FALSE]

InitBus ==
  /\ checkpoints = <<>> /\ kartsInside = <<>> /\ kartStates = <<>>
  /\ now = 0 /\ events = <<>> /\ lastCall = [op |-> "init"]
  /\ lapLog = [k \in KartIds |-> <<>>]
  /\ runCount = [k \in KartIds |-> <<>>]
  /\ NoGame
  /\ arcade = Unused /\ probe = Unused /\ cpu = Unused /\ editor = Unused
  /\ bus = [listeners |-> EventBus, emitted |-> NoEmit]

\* eventBus.on(eventName, callback)
On(eventName, callback) ==
  /\ Registrations(bus.listeners) < MaxListeners
  /\ bus' = [listeners |-> on(bus.listeners, eventName, callback),
             emitted |-> NoEmit]
  /\ UNCHANGED <<csVars, gameVars, arcade, probe, cpu, editor>>

\* eventBus.off(eventName, callback)
Off(eventName, callback) ==
  /\ bus' = [listeners |-> off(bus.listeners, eventName, callback),
             emitted |-> NoEmit]
  /\ UNCHANGED <<csVars, gameVars, arcade, probe, cpu, editor>>

\* eventBus.emit(eventName, data)
Emit(eventName) ==
  /\ Registrations(bus.listeners) <= MaxListeners
  /\ \E r \in { emit(bus.listeners, eventName) } :
       bus' = [listeners |-> r.listeners,
               emitted |-> [called |-> TRUE, eventName |-> eventName,
                            registered |->
                              IF Has(bus.listeners, eventName)
                                THEN bus.listeners[eventName] ELSE << >>,
                            invoked |-> r.invoked]]
  /\ UNCHANGED <<csVars, gameVars, arcade, probe, cpu, editor>>

\* eventBus.clear(eventName)
Clear(eventName) ==
  /\ Has(bus.listeners, eventName)
  /\ bus' = [listeners |-> [n \in DOMAIN bus.listeners \ {eventName}
                              |-> bus.listeners[n]],
             emitted |-> NoEmit]
  /\ UNCHANGED <<csVars, gameVars, arcade, probe, cpu, editor>>

NextBus ==
  \/ \E eventName \in EventNames, callback \in Callbacks : On(eventName, callback)
  \/ \E eventName \in EventNames, callback \in Callbacks : Off(eventName, callback)
  \/ \E eventName \in EventNames : Emit(eventName)
  \/ \E eventName \in EventNames : Clear(eventName)

SpecBus == InitBus /\ [][NextBus]_vars

\* the callbacks an emit invoked, in the order of the calls
InvokedCallbacks(invoked) == [i \in 1..Len(invoked) |-> invoked[i].callback]

\* C19 (emit reaches all listeners): emit(e, data) invokes the callbacks
\* registered for e when it was called, each once per registration and in
\* registration order, whatever the callbacks throw, remove or register
\* during the emit.
C19_EmitReachesAll ==
  bus.emitted.called =>
    InvokedCallbacks(bus.emitted.invoked) = bus.emitted.registered

----------------------------------------------------------------------------
(* MapEditor: the grid and its undo / redo stacks *)

MaxEdits == 3   \* edits (placeTile, clearGrid) explored per editor

maxUndoStack == 50

\* this.grid holding a 2D array ...
Grid(rows) == [defined |-> TRUE, rows |-> rows]

\* ... or undefined
UndefinedGrid == [defined |-> FALSE]

\* MapEditor.initGrid(): gridHeight rows of gridWidth 'grass'
initGrid(gridWidth, gridHeight) ==
  Grid([row \in 1..gridHeight |-> [col \in 1..gridWidth |-> "grass"]])

\* MapEditor.cloneGrid(), for a grid that is an array
cloneGrid(grid) == grid.rows

\* stack.pop(): the value popped (undefined for an empty stack)
Pop(stack) == IF Len(stack) = 0 THEN UndefinedGrid ELSE Grid(stack[Len(stack)])

\* the stack after stack.pop()
Popped(stack) == IF Len(stack) = 0 THEN stack ELSE SubSeq(stack, 1, Len(stack) - 1)

\* new MapEditor(scene, camera, renderer, {gridWidth, gridHeight}) after
\* toggleAutoTile(false)
MapEditor(gridWidth, gridHeight) ==
  [gridWidth |-> gridWidth, gridHeight |-> gridHeight,
   brushSize |-> 1, autoTileEnabled |-> FALSE,
   grid |-> initGrid(gridWidth, gridHeight),
   undoStack |-> << >>, redoStack |-> << >>]

\* MapEditor.pushUndo()
pushUndo(e) ==
  LET pushed == Append(e.undoStack, cloneGrid(e.grid))
  IN  [e EXCEPT !.undoStack = IF Len(pushed) > maxUndoStack
                                THEN Tail(pushed) ELSE pushed,
                !.redoStack = << >>]

\* MapEditor.placeTile(gridX, gridZ, tileType) of an editor with brush size 1
\* and auto-tiling off; renderGrid rebuilds the Track from the grid and
\* leaves the grid and the stacks alone
placeTile(e, gridX, gridZ, tileType) ==
  LET e1 == pushUndo(e)
  IN  IF gridX >= 0 /\ gridX < e.gridWidth /\ gridZ >= 0 /\ gridZ < e.gridHeight
        THEN [e1 EXCEPT !.grid.rows[gridZ + 1][gridX + 1] = tileType]
      ELSE e1

\* MapEditor.clearGrid(), confirmed
clearGrid(e) == [pushUndo(e) EXCEPT !.grid = initGrid(e.gridWidth, e.gridHeight)]

\* MapEditor.undo()
undo(e) ==
  IF Len(e.undoStack) = 0 THEN e
  ELSE [e EXCEPT !.redoStack = Append(@, cloneGrid(e.grid)),
                 !.grid = Pop(e.undoStack),
                 !.undoStack = Popped(@)]

\* MapEditor.redo(): pushUndo() empties the redo stack before the pop
redo(e) ==
  IF Len(e.redoStack) = 0 THEN e
  ELSE LET e1 == pushUndo(e)
       IN  [e1 EXCEPT !.grid = Pop(e1.redoStack),
                      !.redoStack = Popped(@)]

EditorWidths == {1, 2}
EditorHeights == {2}
EditorTiles == {"straight", "wall", "grass"}
EditorCells == {0 - 1, 0, 1}

NoOp == [op |-> "init"]

InitEditor ==
  /\ checkpoints = <<>> /\ kartsInside = <<>> /\ kartStates = <<>>
  /\ now = 0 /\ events = <<>> /\ lastCall = [op |-> "init"]
  /\ lapLog = [k \in KartIds |-> <<>>]
  /\ runCount = [k \in KartIds |-> <<>>]
  /\ NoGame
  /\ arcade = Unused /\ probe = Unused /\ cpu = Unused /\ bus = Unused
  /\ \E w \in EditorWidths, h \in EditorHeights :
       editor = [self |-> MapEditor(w, h), edits |-> 0,
                 last |-> NoOp, previous |-> NoOp]

\* the call just made, with the grid it started from and whether it acted
Call(op, acted) == [op |-> op, before |-> editor.self.grid, acted |-> acted]

\* editor.placeTile(gridX, gridZ, tileType); cloneGrid throws on an
\* undefined grid before anything is changed
PlaceTile(gridX, gridZ, tileType) ==
  /\ editor.edits < MaxEdits
  /\ editor.self.grid.defined
  /\ editor' = [self |-> placeTile(editor.self, gridX, gridZ, tileType),
                edits |-> editor.edits + 1,
                last |-> Call("edit", TRUE), previous |-> editor.last]
  /\ UNCHANGED <<csVars, gameVars, arcade, probe, cpu, bus>>

\* editor.clearGrid()
ClearGrid ==
  /\ editor.edits < MaxEdits
  /\ editor.self.grid.defined
  /\ editor' = [self |-> clearGrid(editor.self),
                edits |-> editor.edits + 1,
                last |-> Call("edit", TRUE), previous |-> editor.last]
  /\ UNCHANGED <<csVars, gameVars, arcade, probe, cpu, bus>>

\* editor.undo()
Undo ==
  /\ editor.self.grid.defined
  /\ editor' = [editor EXCEPT
                  !.self = undo(editor.self),
                  !.last = Call("undo", Len(editor.self.undoStack) > 0),
                  !.previous = editor.last]
  /\ UNCHANGED <<csVars, gameVars, arcade, probe, cpu, bus>>

\* editor.redo()
Redo ==
  /\ editor.self.grid.defined
  /\ editor' = [editor EXCEPT
                  !.self = redo(editor.self),
                  !.last = Call("redo", Len(editor.self.redoStack) > 0),
                  !.previous = editor.last]
  /\ UNCHANGED <<csVars, gameVars, arcade, probe, cpu, bus>>

NextEditor ==
  \/ \E gridX \in EditorCells, gridZ \in EditorCells, tileType \in EditorTiles :
       PlaceTile(gridX, gridZ, tileType)
  \/ ClearGrid
  \/ Undo
  \/ Redo

SpecEditor == InitEditor /\ [][NextEditor]_vars

\* the grid is a 2D array of gridHeight rows of gridWidth tiles
WellFormed(e) ==
  /\ e.grid.defined
  /\ Len(e.grid.rows) = e.gridHeight
  /\ \A row \in 1..Len(e.grid.rows) : Len(e.grid.rows[row]) = e.gridWidth

\* C20 (undo / redo round trip): undo() directly after an edit restores the
\* grid the edit started from; redo() directly after an undo() that acted
\* restores the grid that undo started from (the grid after the edit); both
\* leave the grid a well-formed 2D array.
C20_UndoRedoRoundTrip ==
  /\ editor.last.op = "undo" /\ editor.previous.op = "edit"
       => editor.self.grid = editor.previous.before /\ WellFormed(editor.self)
  /\ editor.last.op = "redo" /\ editor.previous.op = "undo"
     /\ editor.previous.acted
       => editor.self.grid = editor.previous.before /\ WellFormed(editor.self)

----------------------------------------------------------------------------
(* Editing the checkpoint list: CheckpointSystem and MapEditor *)

MaxCheckpoints == 3   \* addCheckpoint is explored while the list is shorter

\* new Checkpoint(scene, {id, position, rotation, isFinishLine})
Checkpoint(id, position, rotation, isFinishLine) ==
  [id |-> id, px |-> position.x, py |-> position.y, pz |-> position.z,
   rotation |-> rotation, width |-> 20, height |-> 10,
   isFinishLine |-> isFinishLine]

\* CheckpointSystem.addCheckpoint(position, rotation, isFinishLine)
addCheckpoint(cps, position, rotation, isFinishLine) ==
  Append(cps, Checkpoint(Len(cps), position, rotation, isFinishLine))

\* this.checkpoints.findIndex(cp => cp.id === id), 1-based, 0 when absent
FindIndex(cps, id) ==
  IF \E i \in 1..Len(cps) : cps[i].id = id
    THEN CHOOSE i \in 1..Len(cps) :
           cps[i].id = id /\ \A j \in 1..(i - 1) : cps[j].id # id
  ELSE 0

\* removeCheckpoint that leaves the remaining ids as they were
removeCheckpoint_NoReindex(cps, id) ==
  IF FindIndex(cps, id) = 0 THEN cps
  ELSE Splice(cps, FindIndex(cps, id))

\* CheckpointSystem.removeCheckpoint(id), and MapEditor.removeCheckpoint(id)
removeCheckpoint(cps, id) ==
  IF FindIndex(cps, id) = 0 THEN cps
  ELSE LET rest == Splice(cps, FindIndex(cps, id))
       IN  [i \in 1..Len(rest) |-> [rest[i] EXCEPT !.id = i - 1]]

\* MapEditor.addCheckpoint(position, rotation, isFinishLine)
editorAddCheckpoint(cps, position, rotation, isFinishLine) ==
  Append(cps, [id |-> Len(cps), position |-> position,
               rotation |-> Pos(0, rotation, 0), width |-> 20, height |-> 10,
               isFinishLine |-> isFinishLine])

\* new CheckpointSystem(scene, checkpointData): no data, or track data as
\* the editor saves it
SystemData == CheckpointData \cup { << >> }

NewPositions == { Pos(2 * FP, FP \div 2, 0) }
NewRotations == { 0 }
RemoveIds == 0..MaxCheckpoints

InitCheckpoints ==
  /\ \E data \in SystemData :
       /\ checkpoints = loadCheckpoints(data)
       /\ kartsInside = [i \in 1..Len(data) |-> {}]
  /\ kartStates = <<>>
  /\ now = 0
  /\ events = <<>>
  /\ lastCall = [op |-> "init"]
  /\ lapLog = [k \in KartIds |-> <<>>]
  /\ runCount = [k \in KartIds |-> <<>>]
  /\ NoGame
  /\ arcade = Unused /\ probe = Unused /\ cpu = Unused /\ bus = Unused
  /\ editor = [checkpoints |-> << >>]

\* checkpointSystem.addCheckpoint(position, rotation, isFinishLine)
AddCheckpoint(position, rotation, isFinishLine) ==
  /\ Len(checkpoints) < MaxCheckpoints
  /\ checkpoints' = addCheckpoint(checkpoints, position, rotation, isFinishLine)
  /\ kartsInside' = Append(kartsInside, {})
  /\ events' = <<>>
  /\ lastCall' = [op |-> "addCheckpoint", on |-> "system",
                  found |-> 0, length |-> Len(checkpoints)]
  /\ UNCHANGED <<kartStates, now, lapLog, runCount, gameVars, auxVars>>

\* checkpointSystem.removeCheckpoint(id)
RemoveCheckpoint(id) ==
  /\ checkpoints' = removeCheckpoint(checkpoints, id)
  /\ kartsInside' = IF FindIndex(checkpoints, id) = 0 THEN kartsInside
                    ELSE Splice(kartsInside, FindIndex(checkpoints, id))
  /\ events' = <<>>
  /\ lastCall' = [op |-> "removeCheckpoint", on |-> "system",
                  found |-> FindIndex(checkpoints, id),
                  length |-> Len(checkpoints)]
  /\ UNCHANGED <<kartStates, now, lapLog, runCount, gameVars, auxVars>>

\* mapEditor.addCheckpoint(position, rotation, isFinishLine)
EditorAddCheckpoint(position, rotation, isFinishLine) ==
  /\ Len(editor.checkpoints) < MaxCheckpoints
  /\ editor' = [checkpoints |-> editorAddCheckpoint(editor.checkpoints,
                                   position, rotation, isFinishLine)]
  /\ events' = << [type |-> "checkpoint-added", id |-> Len(editor.checkpoints)] >>
  /\ lastCall' = [op |-> "addCheckpoint", on |-> "editor",
                  found |-> 0, length |-> Len(editor.checkpoints)]
  /\ UNCHANGED <<checkpoints, kartsInside, kartStates, now, lapLog, runCount,
                 gameVars, arcade, probe, cpu, bus>>

\* mapEditor.removeCheckpoint(id)
EditorRemoveCheckpoint(id) ==
  /\ editor' = [checkpoints |-> removeCheckpoint(editor.checkpoints, id)]
  /\ events' = IF FindIndex(editor.checkpoints, id) = 0 THEN <<>>
               ELSE << [type |-> "checkpoint-removed", id |-> id] >>
  /\ lastCall' = [op |-> "removeCheckpoint", on |-> "editor",
                  found |-> FindIndex(editor.checkpoints, id),
                  length |-> Len(editor.checkpoints)]
  /\ UNCHANGED <<checkpoints, kartsInside, kartStates, now, lapLog, runCount,
                 gameVars, arcade, probe, cpu, bus>>

NextCheckpoints ==
  \/ \E position \in NewPositions, rotation \in NewRotations,
        isFinishLine \in BOOLEAN :
       AddCheckpoint(position, rotation, isFinishLine)
  \/ \E id \in RemoveIds : RemoveCheckpoint(id)
  \/ \E position \in NewPositions, rotation \in NewRotations,
        isFinishLine \in BOOLEAN :
       EditorAddCheckpoint(position, rotation, isFinishLine)
  \/ \E id \in RemoveIds : EditorRemoveCheckpoint(id)

SpecCheckpoints == InitCheckpoints /\ [][NextCheckpoints]_vars

\* the checkpoint at list index i (0-based) has id i
ContiguousIds(cps) == \A i \in 1..Len(cps) : cps[i].id = i - 1

\* C21 (contiguous checkpoint ids): after any sequence of addCheckpoint and
\* removeCheckpoint calls, on the CheckpointSystem and on the MapEditor, the
\* checkpoint at list index i has id i.
C21_ContiguousIds ==
  ContiguousIds(checkpoints) /\ ContiguousIds(editor.checkpoints)

\* a checkpoint that was not the last one has just been removed from the
\* system's list, while the editor holds checkpoints of its own
C21_Witness ==
  /\ lastCall.op = "removeCheckpoint" /\ lastCall.on = "system"
  /\ lastCall.found > 0 /\ lastCall.found < lastCall.length
  /\ Len(checkpoints) >= 2
  /\ Len(editor.checkpoints) >= 1

----------------------------------------------------------------------------
(* An ArcadeController drifting, boosted and reset *)

\* throttle with and without the drift button, steering to either side
\* while it is held, and braking
DriftInputs ==
  { Inputs(FP, 0, 0, FALSE), Inputs(FP, 0, FP, TRUE),
    Inputs(FP, 0, 0 - FP, TRUE), Inputs(FP, 0, 200, TRUE),
    Inputs(0, FP, 0, FALSE) }

\* a call that was not update: the operation and the controller before it
OtherCall(op) == [called |-> FALSE, op |-> op, controller |-> arcade.controller]

\* controller.giveBoost()
GiveBoost ==
  /\ arcade.calls < MaxCalls
  /\ arcade' = [arcade EXCEPT !.controller.boostTimer = giveBoost,
                              !.calls = @ + 1,
                              !.boosted = TRUE,
                              !.last = OtherCall("giveBoost")]
  /\ UNCHANGED <<csVars, gameVars, probe, cpu, bus, editor>>

\* controller.reset()
Reset ==
  /\ arcade.calls < MaxCalls
  /\ arcade' = [arcade EXCEPT !.controller = reset(arcade.controller),
                              !.calls = @ + 1,
                              !.last = OtherCall("reset")]
  /\ UNCHANGED <<csVars, gameVars, probe, cpu, bus, editor>>

NextDrift ==
  \/ \E inputs \in DriftInputs : ArcadeUpdate(inputs)
  \/ GiveBoost
  \/ Reset

SpecDrift == InitArcade /\ [][NextDrift]_vars

\* C22 (clamp range of the reported speed): the speed every update call
\* leaves lies in [-reverseSpeed, maxAllowedSpeed], maxAllowedSpeed being
\* boostSpeed * speedMultiplier while the boost timer is positive and
\* maxSpeed * speedMultiplier + 5 otherwise (on the call in which the boost
\* runs out, the larger bound boostSpeed * speedMultiplier + 5 is allowed).
C22_SpeedRange ==
  arcade.last.called =>
    LET before == arcade.last.controller
        timer  == IF before.boostTimer > 0
                    THEN before.boostTimer - arcade.delta ELSE before.boostTimer
        maxAllowedSpeed ==
          IF timer > 0 THEN MulFP(Params.boostSpeed, arcade.speedMultiplier)
          ELSE IF before.boostTimer > 0
            THEN MulFP(Params.boostSpeed, arcade.speedMultiplier) + 5 * FP
          ELSE MulFP(Params.maxSpeed, arcade.speedMultiplier) + 5 * FP
    IN  /\ arcade.controller.speed >= 0 - Params.reverseSpeed
        /\ arcade.controller.speed <= maxAllowedSpeed

\* the last call entered a drift
EnteredDrift ==
  /\ arcade.last.called
  /\ ~arcade.last.controller.isDrifting
  /\ arcade.controller.isDrifting

\* the last call continued a drift
KeptDrifting ==
  /\ arcade.last.called
  /\ arcade.last.controller.isDrifting
  /\ arcade.controller.isDrifting

\* C23 (drift direction lock): the update call that enters a drift sets
\* driftDirection to sign(steer) and restarts driftCharge from 0 (it then
\* holds this call's charge, driftChargeRate * delta); every later update
\* call of the same drift keeps driftDirection, whatever the sign of steer,
\* and leaves driftCharge strictly larger than before the call.
C23_DriftLock ==
  /\ EnteredDrift =>
       /\ arcade.controller.driftDirection = Sign(arcade.last.inputs.steer)
       /\ arcade.controller.driftCharge
            = MulFP(Params.driftChargeRate, arcade.delta)
  /\ KeptDrifting =>
       /\ arcade.controller.driftDirection
            = arcade.last.controller.driftDirection
       /\ arcade.controller.driftCharge > arcade.last.controller.driftCharge

\* a drift continued by a call that steers against the locked direction
C23_Witness ==
  /\ KeptDrifting
  /\ Sign(arcade.last.inputs.steer) = 0 - arcade.last.controller.driftDirection
  /\ arcade.controller.driftDirection # 0

\* C27 (drift sub-state consistency): after every update, giveBoost or
\* reset call, a controller that is not drifting has driftDirection 0 and
\* driftCharge 0, and one that is drifting has driftDirection -1 or 1 and
\* driftCharge > 0.
C27_DriftSubState ==
  IF arcade.controller.isDrifting
    THEN /\ arcade.controller.driftDirection \in {0 - 1, 1}
         /\ arcade.controller.driftCharge > 0
  ELSE /\ arcade.controller.driftDirection = 0
       /\ arcade.controller.driftCharge = 0

\* reset() has just been called on a drifting controller
C27_Witness ==
  /\ ~arcade.last.called
  /\ arcade.calls > 0
  /\ arcade.last.op = "reset"
  /\ arcade.last.controller.isDrifting
  /\ arcade.last.controller.driftCharge > 0
  /\ ~arcade.controller.isDrifting

----------------------------------------------------------------------------
(* CpuDriver: routes over the grid (_bfs, _smoothPath) *)

Cell(row, col) == [row |-> row, col |-> col]

\* dirs of _bfs, in its order
Dirs == << Cell(1, 0), Cell(0 - 1, 0), Cell(0, 1), Cell(0, 0 - 1) >>

\* a neighbour test that lets the search enter every tile
CanEnter_Any(t, row, col) == TRUE

\* "tile && tile.collision === true" for the tile of trackData[row][col]
CanEnter(t, row, col) == getTile(TileIdAt(t, row, col)).collision

\* the for loop over dirs of _bfs, from direction i on: queue and cameFrom
\* after it (cameFrom maps a cell to the cell it was reached from, NoCell
\* for null)
RECURSIVE Expand(_, _, _, _, _)
Expand(t, current, i, queue, cameFrom) ==
  IF i > Len(Dirs) THEN [queue |-> queue, cameFrom |-> cameFrom]
  ELSE LET n == Cell(current.row + Dirs[i].row, current.col + Dirs[i].col)
       IN  IF ~InGrid(t, n) THEN Expand(t, current, i + 1, queue, cameFrom)
           ELSE IF ~CanEnter(t, n.row, n.col)
             THEN Expand(t, current, i + 1, queue, cameFrom)
           ELSE IF n \in DOMAIN cameFrom
             THEN Expand(t, current, i + 1, queue, cameFrom)
           ELSE Expand(t, current, i + 1, Append(queue, n),
                       MapSet(cameFrom, n, current))

\* CpuDriver._reconstructPath: world positions from the start to key
RECURSIVE reconstructPath(_, _, _, _)
reconstructPath(t, cameFrom, key, path) ==
  IF key = NoCell THEN path
  ELSE LET wp == gridToWorld(t, key.row, key.col)
       IN  reconstructPath(t, cameFrom, cameFrom[key],
                           IF wp = NoPosition THEN path ELSE << wp >> \o path)

\* the while loop of _bfs
RECURSIVE BfsLoop(_, _, _, _)
BfsLoop(t, goal, queue, cameFrom) ==
  IF Len(queue) = 0 THEN << >>
  ELSE LET current == Head(queue)
       IN  IF current.row = goal.row /\ current.col = goal.col
             THEN reconstructPath(t, cameFrom, current, << >>)
           ELSE Eval(Expand(t, current, 1, Tail(queue), cameFrom), LAMBDA e :
                  BfsLoop(t, goal, e.queue, e.cameFrom))

\* CpuDriver._bfs(track, start, goal)
bfs(t, start, goal) ==
  BfsLoop(t, goal, << start >>, MapSet(<< >>, start, NoCell))

\* CpuDriver._lineIsClear(track, a, b); normalize() leaves a zero vector as
\* it is
lineIsClear(t, a, b) ==
  LET distance == DistanceTo(a, b)
      step == Max(MulFP(t.tileSize, 400), 2 * FP)
      dir  == IF distance = 0 THEN Pos(0, 0, 0)
              ELSE Pos(DivFP(b.x - a.x, distance), DivFP(b.y - a.y, distance),
                       DivFP(b.z - a.z, distance))
      samples == (distance + step - 1) \div step
  IN  \A i \in 0..samples :
        LET p == Pos(a.x + MulFP(dir.x, step * i), a.y + MulFP(dir.y, step * i),
                     a.z + MulFP(dir.z, step * i))
        IN  getTileAtPosition(t, p).collision

\* the for loop of _smoothPath: the index (1-based) it leaves in farthestIdx
RECURSIVE Farthest(_, _, _, _, _)
Farthest(t, points, anchorIdx, i, farthestIdx) ==
  IF i > Len(points) THEN farthestIdx
  ELSE IF lineIsClear(t, points[anchorIdx], points[i])
    THEN Farthest(t, points, anchorIdx, i + 1, i)
  ELSE farthestIdx

\* the while loop of _smoothPath
RECURSIVE SmoothFrom(_, _, _, _)
SmoothFrom(t, points, anchorIdx, result) ==
  IF anchorIdx >= Len(points) THEN result
  ELSE Eval(Farthest(t, points, anchorIdx, anchorIdx + 1, anchorIdx + 1),
            LAMBDA farthestIdx :
              SmoothFrom(t, points, farthestIdx,
                         Append(result, points[farthestIdx])))

\* CpuDriver._smoothPath(track, points)
smoothPath(t, points) ==
  IF Len(points) <= 2 THEN points
  ELSE SmoothFrom(t, points, 1, << points[1] >>)

\* grids: open, a ring around a wall, a detour with a dead end, one with a
\* walled-off corner, and a corridor
RouteLayouts ==
  { << <<"straight", "straight", "straight">>,
       <<"straight", "grass", "straight">>,
       <<"straight", "straight", "start_finish">> >>,
    << <<"straight", "straight", "straight">>,
       <<"straight", "wall", "straight">>,
       <<"straight", "straight", "straight">> >>,
    << <<"straight", "wall", "straight", "straight">>,
       <<"straight", "barrier", "straight", "wall">>,
       <<"straight", "straight", "straight", "wall">> >>,
    << <<"straight", "wall", "straight">>,
       <<"wall", "empty", "straight">>,
       <<"straight", "straight", "straight">> >>,
    << <<"straight", "straight", "straight", "straight">> >> }

RouteTileSizes == { 2 * FP, 10 * FP }

\* the in-range cells of a track
Cells(t) == { Cell(r, c) : r \in 0..(t.height - 1), c \in 0..(t.width - 1) }

InitRoute ==
  /\ checkpoints = <<>> /\ kartsInside = <<>> /\ kartStates = <<>>
  /\ now = 0 /\ events = <<>> /\ lastCall = [op |-> "init"]
  /\ lapLog = [k \in KartIds |-> <<>>]
  /\ runCount = [k \in KartIds |-> <<>>]
  /\ NoGame
  /\ arcade = Unused /\ cpu = Unused /\ bus = Unused /\ editor = Unused
  /\ \E data \in RouteLayouts, size \in RouteTileSizes :
       probe = [track |-> LoadTrack(data, size), op |-> "none"]

\* this._bfs(track, startGrid, endGrid)
Bfs(start, goal) ==
  /\ probe' = [track |-> probe.track, op |-> "bfs", start |-> start,
               goal |-> goal, path |-> bfs(probe.track, start, goal)]
  /\ UNCHANGED <<csVars, gameVars, arcade, cpu, bus, editor>>

\* this._smoothPath(track, segment) for the segment _bfs returned
SmoothPath ==
  /\ probe.op = "bfs"
  /\ Len(probe.path) > 0
  /\ probe' = [track |-> probe.track, op |-> "smooth", points |-> probe.path,
               result |-> smoothPath(probe.track, probe.path)]
  /\ UNCHANGED <<csVars, gameVars, arcade, cpu, bus, editor>>

NextRoute ==
  \/ \E start \in Cells(probe.track), goal \in Cells(probe.track) :
       Bfs(start, goal)
  \/ SmoothPath

SpecRoute == InitRoute /\ [][NextRoute]_vars

\* cells next to each other in a row or a column
Adjacent(a, b) == Abs(a.row - b.row) + Abs(a.col - b.col) = 1

\* the number of steps of a shortest 4-connected path from the cells of
\* frontier (n steps from the start) to goal over drivable cells, -1 when
\* there is none
RECURSIVE StepsTo(_, _, _, _, _)
StepsTo(t, frontier, seen, goal, n) ==
  IF goal \in frontier THEN n
  ELSE LET next == { c \in Cells(t) \ seen :
                       /\ getTile(TileIdAt(t, c.row, c.col)).collision
                       /\ \E f \in frontier : Adjacent(f, c) }
       IN  IF next = {} THEN 0 - 1
           ELSE StepsTo(t, next, seen \cup next, goal, n + 1)

\* C24 (BFS route): _bfs returns a shortest 4-connected path from start to
\* goal, as the centres of its cells, whose cells after the first are all
\* drivable; it returns the empty list exactly when there is no such path.
C24_BfsRoute ==
  probe.op = "bfs" =>
    LET t == probe.track
        path == probe.path
        steps == StepsTo(t, {probe.start}, {probe.start}, probe.goal, 0)
        cell(i) == worldToGridChecked(t, path[i])
    IN  IF steps = 0 - 1 THEN path = << >>
        ELSE /\ Len(path) = steps + 1
             /\ path[1] = gridToWorld(t, probe.start.row, probe.start.col)
             /\ path[Len(path)] = gridToWorld(t, probe.goal.row, probe.goal.col)
             /\ \A i \in 2..Len(path) :
                  /\ Adjacent(cell(i - 1), cell(i))
                  /\ getTile(TileIdAt(t, cell(i).row, cell(i).col)).collision

\* a route of at least five cells that had to go around a wall: longer than
\* the straight distance between its ends
C24_Witness ==
  /\ probe.op = "bfs"
  /\ Len(probe.path) >= 5
  /\ Len(probe.path) - 1
       > Abs(probe.start.row - probe.goal.row)
         + Abs(probe.start.col - probe.goal.col)

\* the index of the farthest point after anchorIdx that _lineIsClear reports
\* reachable from it, the next index when there is none
FarthestVisible(t, points, anchorIdx) ==
  LET visible == { i \in (anchorIdx + 1)..Len(points) :
                     lineIsClear(t, points[anchorIdx], points[i]) }
  IN  IF visible = {} THEN anchorIdx + 1
      ELSE CHOOSE i \in visible : \A j \in visible : j <= i

RECURSIVE PulledFrom(_, _, _, _)
PulledFrom(t, points, anchorIdx, result) ==
  IF anchorIdx >= Len(points) THEN result
  ELSE PulledFrom(t, points, FarthestVisible(t, points, anchorIdx),
                  Append(result, points[FarthestVisible(t, points, anchorIdx)]))

\* C25 (string-pulling picks the farthest visible point): _smoothPath
\* returns the points from the first to the last input point in which each
\* point following an anchor is the farthest later input point that
\* _lineIsClear reports reachable from that anchor (the immediate successor
\* when none is).
C25_FarthestVisible ==
  probe.op = "smooth" =>
    probe.result = IF Len(probe.points) <= 2 THEN probe.points
                   ELSE PulledFrom(probe.track, probe.points, 1,
                                   << probe.points[1] >>)

----------------------------------------------------------------------------
(* More properties of the game loop (checked under SpecGame) *)

\* C26 (karts stay on drivable tiles): the karts start on drivable tiles,
\* and after every Game.update frame every kart's position is on a drivable
\* tile: Track.isOutOfBounds(kart.pos) is false.
C26_StayOnTrack ==
  \A i \in DOMAIN karts : ~isOutOfBounds(track, karts[i].pos)

\* a second or later frame in which the step took one kart out of bounds
\* and moved another one along the road
C26_Witness ==
  /\ game.frameCount >= 2
  /\ \E i, j \in DOMAIN frameLog :
       /\ isOutOfBounds(track, frameLog[i].stepPos)
       /\ ~isOutOfBounds(track, karts[i].pos)
       /\ ~isOutOfBounds(track, frameLog[j].stepPos)
       /\ frameLog[j].stepPos # frameLog[j].prevPos
       /\ karts[j].pos = frameLog[j].stepPos

\* the events of the frame that follow its race-won event
AfterRaceWon ==
  IF \E n \in 1..Len(events) : events[n].type = "race-won"
    THEN SubSeq(events,
                1 + CHOOSE n \in 1..Len(events) : events[n].type = "race-won",
                Len(events))
  ELSE << >>

\* C29 (the race freezes at the win): once race-won is emitted no kart is
\* stepped and no checkpoint-reached or lap-completed event is emitted,
\* also for the karts that follow the winner in the kart list in the
\* winning frame.
C29_FreezeAtWin ==
  /\ \A i \in DOMAIN frameLog :
       frameLog[i].winnerBefore # NullId
         => /\ frameLog[i].stepPos = frameLog[i].prevPos
            /\ karts[i].pos = frameLog[i].prevPos
            /\ frameLog[i].result = NoResult
  /\ \A n \in 1..Len(AfterRaceWon) :
       AfterRaceWon[n].type \notin {"checkpoint-reached", "lap-completed"}

----------------------------------------------------------------------------
(* The cursor's position on the loop (checked under SpecCpu) *)

\* how far the projection of the last call lies behind the loop position
\* the cursor had before that call, going backward along the loop
BehindCursor ==
  wrapDistance(cpu.last.driver.totalPathLength,
               wrapDistance(cpu.last.driver.totalPathLength,
                            cpu.last.driver.pathCursor)
                 - cpu.last.projection.distanceAlong)

\* C30 (the loop position never moves backward): when the kart's projection
\* lies behind the cursor's loop position (pathCursor mod totalPathLength)
\* by more than 0.1 and less than half the loop length, the call leaves the
\* cursor's loop position unchanged.
C30_LoopPositionHolds ==
  ( /\ cpu.last.called
    /\ cpu.last.projection.found
    /\ cpu.last.driver.totalPathLength > 0
    /\ BehindCursor > 100
    /\ 2 * BehindCursor < cpu.last.driver.totalPathLength )
  => wrapDistance(cpu.driver.totalPathLength, cpu.driver.pathCursor)
       = wrapDistance(cpu.last.driver.totalPathLength,
                      cpu.last.driver.pathCursor)

----------------------------------------------------------------------------
(* One kart, stepped and reset *)

MaxKartCalls == 4   \* Kart.step and Kart.reset calls explored per kart

\* Kart.reset(position, heading)
KartReset(kart, position, heading) ==
  [kart EXCEPT !.pos = position,
               !.heading = heading,
               !.controller = reset(kart.controller),
               !.speed = 0,
               !.isDrifting = FALSE,
               !.boostActive = FALSE,
               !.wasDrifting = FALSE,
               !.driftCharge = 0,
               !.driftAngle = 0]

\* where and how a kart is put back: the start grid
ResetPosition == Pos(0, FP \div 2, 0)
ResetHeading == 0

\* the drift events among evs, by type
DriftEventsOf(evs) ==
  SelectSeq([n \in 1..Len(evs) |-> evs[n].type],
            LAMBDA type : type \in {"drift-start", "drift-end"})

InitKart ==
  /\ checkpoints = <<>> /\ kartsInside = <<>> /\ kartStates = <<>>
  /\ now = 0 /\ events = <<>> /\ lastCall = [op |-> "init"]
  /\ lapLog = [k \in KartIds |-> <<>>]
  /\ runCount = [k \in KartIds |-> <<>>]
  /\ NoGame
  /\ arcade = Unused /\ cpu = Unused /\ bus = Unused /\ editor = Unused
  /\ probe = [kart |-> Kart("player", TRUE, 0, 0, 0), calls |-> 0,
              driftEvents |-> << >>, resets |-> 0]

\* kart.step(delta, inputs)
StepKart(delta, inputs) ==
  /\ probe.calls < MaxKartCalls
  /\ \E r \in { KartStep(probe.kart, delta, inputs) } :
       probe' = [probe EXCEPT
                   !.kart = r.kart,
                   !.calls = @ + 1,
                   !.driftEvents = @ \o DriftEventsOf(r.events)]
  /\ UNCHANGED <<csVars, gameVars, arcade, cpu, bus, editor>>

\* kart.reset(position, heading)
ResetKart ==
  /\ probe.calls < MaxKartCalls
  /\ probe' = [probe EXCEPT
                 !.kart = KartReset(probe.kart, ResetPosition, ResetHeading),
                 !.calls = @ + 1,
                 !.resets = @ + 1]
  /\ UNCHANGED <<csVars, gameVars, arcade, cpu, bus, editor>>

NextKart ==
  \/ \E inputs \in DriftInputs : StepKart(FP \div 2, inputs)
  \/ ResetKart

SpecKart == InitKart /\ [][NextKart]_vars

\* C28 (drift events alternate): over any sequence of Kart.step and
\* Kart.reset calls, the drift-start and drift-end events emitted for the
\* kart strictly alternate, beginning with drift-start.
C28_DriftEventsAlternate ==
  \A n \in 1..Len(probe.driftEvents) :
    probe.driftEvents[n] = IF n % 2 = 1 THEN "drift-start" ELSE "drift-end"

====
